---- MODULE Spec2Model ----
(***************************************************************************)
(* Model of the in-memory watchlist store (src/src/database.ts) driven     *)
(* through the service layer (src/src/service.ts).                         *)
(*                                                                         *)
(* Strings that the code trims or compares are sequences of characters.    *)
(* An optional value is absent (the empty tuple) or Some(v) == <<v>>.      *)
(* A requester id is a non-empty user id or the value undefined, which is  *)
(* what the tool handlers pass when the call carries no identity.          *)
(* An identifier `id_${Date.now()}_${idCounter}` is the pair               *)
(* <<Date.now(), idCounter>>.                                              *)
(***************************************************************************)
EXTENDS Integers, Sequences, FiniteSets, TLC

\* ------------------------------------------------------------------------
\* Bounds
\* ------------------------------------------------------------------------
MaxIdCounter == 3
MaxTime == 1
MaxTotal == 45
MaxRateTime == 2000
MaxRateCount == 3

\* ------------------------------------------------------------------------
\* Values
\* ------------------------------------------------------------------------
undefined == "undefined"
Users == {"alice", "bob"}
Requesters == Users \cup {undefined}

absent == <<>>
Some(v) == <<v>>
IsSome(o) == o # absent
Val(o) == o[1]

\* inputs of the service calls
NameInputs == {absent, Some(<<>>), Some(<<" ">>), Some(<<" ", "a">>)}
DescriptionInputs == {absent}
TagsInputs == {absent}
IsPublicInputs == {absent, Some(TRUE), Some(FALSE)}
CoinIdInputs == {<<"a">>, <<" ", "a">>, <<"b">>, <<" ">>}
AddTargetPriceInputs == {absent}
TargetPriceInputs == {absent, Some(2)}
NoteCoinIdInputs == {absent}
CoinNotesInputs == {absent}
ContentInputs == {<<" ">>, <<"c", " ">>}
UpdateContentInputs == {<<" ">>, <<" ", "e">>}
NoPatch == [name |-> absent, description |-> absent, isPublic |-> absent, tags |-> absent]
UpdateInputs == {NoPatch,
                 [NoPatch EXCEPT !.isPublic = Some(TRUE)],
                 [NoPatch EXCEPT !.isPublic = Some(FALSE)]}

\* ------------------------------------------------------------------------
\* State
\* ------------------------------------------------------------------------
VARIABLES
  watchlists,        \* db.watchlists: id -> Watchlist (without coins/notes)
  watchlistCoins,    \* db.watchlistCoins: watchlist id -> sequence of coins
  notes,             \* db.notes: note id -> WatchlistNote
  userWatchlists,    \* db.userWatchlists: user id -> sequence of watchlist ids
  publicWatchlists,  \* db.publicWatchlists: Set, kept in insertion order
  coinWatchlists,    \* db.coinWatchlists: coin id -> sequence of watchlist ids
  idCounter,         \* InMemoryDatabase.idCounter
  now,               \* Date.now()
  rateLimitStore,    \* rateLimitStore: key -> { count, resetTime }
  unpurged,          \* the table and the last outcome of the same calls when the timer never fires
  held,              \* an id a caller has kept from an earlier result, or absent
  coinGeckoProxy,    \* the singleton: a proxy, or null
  connectionPromise, \* the promise of the current attempt, or null
  proxies,           \* the CoinGeckoMCPProxy instances constructed so far
  promises,          \* the promises of the attempts started so far
  disconnects,       \* the disconnect() calls that await a close
  callers,           \* the getCoinGeckoProxy() calls and what they resolved to
  last               \* the last call: operation, arguments, outcome

store == <<watchlists, watchlistCoins, notes, userWatchlists, publicWatchlists, coinWatchlists>>
vars == <<watchlists, watchlistCoins, notes, userWatchlists, publicWatchlists, coinWatchlists, idCounter, now,
          rateLimitStore, unpurged, held, coinGeckoProxy, connectionPromise, proxies, promises, disconnects, callers,
          last>>

proxyState == <<coinGeckoProxy, connectionPromise, proxies, promises, disconnects, callers>>

\* ------------------------------------------------------------------------
\* Helpers: JavaScript strings, arrays, Map and Set
\* ------------------------------------------------------------------------
IsSpace(c) == c = " "

RECURSIVE TrimStart(_)
TrimStart(s) == IF s = <<>> THEN <<>> ELSE IF IsSpace(Head(s)) THEN TrimStart(Tail(s)) ELSE s

RECURSIVE TrimEnd(_)
TrimEnd(s) == IF s = <<>> THEN <<>> ELSE IF IsSpace(s[Len(s)]) THEN TrimEnd(SubSeq(s, 1, Len(s) - 1)) ELSE s

\* a trim of the leading whitespace only
Trim_startOnly(s) == TrimStart(s)

\* String.prototype.trim
Trim(s) == TrimEnd(TrimStart(s))

\* opt?.trim()
OptTrim(o) == IF IsSome(o) THEN Some(Trim(Val(o))) ELSE absent

UpperChar(c) == IF c = "a" THEN "A" ELSE IF c = "b" THEN "B" ELSE c

\* String.prototype.toUpperCase
ToUpperCase(s) == [i \in 1..Len(s) |-> UpperChar(s[i])]

\* truthiness of a user id: ids are non-empty, so only undefined is falsy
Truthy(userId) == userId # undefined

Range(s) == {s[i] : i \in 1..Len(s)}

\* Array.prototype.filter(x => x !== v)
RECURSIVE FilterOut(_, _)
FilterOut(s, v) == IF s = <<>> THEN <<>> ELSE IF Head(s) = v THEN FilterOut(Tail(s), v) ELSE <<Head(s)>> \o FilterOut(Tail(s), v)

\* Map.prototype.get(k) || dflt
MapGet(m, k, dflt) == IF k \in DOMAIN m THEN m[k] ELSE dflt

\* Map.prototype.set(k, v)
MapSet(m, k, v) == [x \in (DOMAIN m) \cup {k} |-> IF x = k THEN v ELSE m[x]]

\* Map.prototype.delete(k)
MapDelete(m, k) == [x \in (DOMAIN m) \ {k} |-> m[x]]

\* Set.prototype.add(v), insertion order kept
SetAdd(s, v) == IF v \in Range(s) THEN s ELSE Append(s, v)

\* Set.prototype.delete(v)
SetDelete(s, v) == FilterOut(s, v)

EmptyMap == [x \in {} |-> 0]

\* ------------------------------------------------------------------------
\* InMemoryDatabase
\* ------------------------------------------------------------------------
MAX_COINS_PER_WATCHLIST == 100

\* the value of the id counter once one watchlist and MAX_COINS_PER_WATCHLIST
\* items have been created
FullIdCounter == MAX_COINS_PER_WATCHLIST + 2

\* The bound on the ids issued in a run: MaxIdCounter ids from the
\* constructor's counter value, or MaxIdCounter ids from FullIdCounter.
IdsLeft ==
  \/ idCounter <= MaxIdCounter
  \/ (FullIdCounter <= idCounter /\ idCounter < FullIdCounter + MaxIdCounter)

\* generateId without the counter
generateId_fixed == <<now, 1>>

\* an id whose counter part wraps around
generateId_wrap == <<now, (idCounter % 2) + 1>>

\* generateId: `id_${Date.now()}_${this.idCounter++}`
generateId == <<now, idCounter>>

\* getNotesForWatchlist(watchlistId): the notes of a watchlist
getNotesForWatchlist(watchlistId) == {n \in {notes[k] : k \in DOMAIN notes} : n.watchlistId = watchlistId}

\* enrichWatchlistWithCoins: the stored record with its current coins and notes
enrichWatchlistWithCoins(watchlistId) ==
  [watchlist |-> watchlists[watchlistId],
   coins |-> MapGet(watchlistCoins, watchlistId, <<>>),
   notes |-> getNotesForWatchlist(watchlistId)]

\* AccessDenied with the visibility test left out
AccessDenied_ownerOnly(w, userId) == Truthy(userId) /\ w.userId # userId

\* the access check of getWatchlist (database.ts:108)
AccessDenied(w, userId) == Truthy(userId) /\ w.userId # userId /\ ~w.isPublic

\* getWatchlistErr answering FORBIDDEN for an id that is not in the store
getWatchlistErr_maskMissing(watchlistId, userId) ==
  IF watchlistId \notin DOMAIN watchlists THEN "FORBIDDEN"
  ELSE IF AccessDenied(watchlists[watchlistId], userId) THEN "FORBIDDEN"
  ELSE "OK"

\* outcome of database.getWatchlist(watchlistId, userId)
getWatchlistErr(watchlistId, userId) ==
  IF watchlistId \notin DOMAIN watchlists THEN "NOT_FOUND"
  ELSE IF AccessDenied(watchlists[watchlistId], userId) THEN "FORBIDDEN"
  ELSE "OK"

\* NotOwner letting anybody write to a public watchlist
NotOwner_publicWritable(w, userId) == w.userId # userId /\ ~w.isPublic

\* the owner check of every mutating operation: watchlist.userId !== userId
NotOwner(w, userId) == w.userId # userId

\* outcome of the common prologue of the coin and note operations:
\* getWatchlist(watchlistId, userId), then the owner check
ownerGateErr(watchlistId, userId) ==
  IF getWatchlistErr(watchlistId, userId) # "OK" THEN getWatchlistErr(watchlistId, userId)
  ELSE IF NotOwner(watchlists[watchlistId], userId) THEN "FORBIDDEN"
  ELSE "OK"

\* outcome of the prologue of updateWatchlist and deleteWatchlist
writeWatchlistErr(watchlistId, userId) ==
  IF watchlistId \notin DOMAIN watchlists THEN "NOT_FOUND"
  ELSE IF NotOwner(watchlists[watchlistId], userId) THEN "FORBIDDEN"
  ELSE "OK"

\* the record of a call
Call(op, userId, id, stage, err, ret) ==
  [op |-> op, userId |-> userId, id |-> id, stage |-> stage, err |-> err, ret |-> ret]

\* a call that returns a value and writes nothing
Return(op, userId, id, ret) ==
  /\ last' = Call(op, userId, id, "store", "OK", ret)
  /\ UNCHANGED <<store, idCounter, now, rateLimitStore, proxyState, unpurged, held>>

\* Throw after the public index has been cleared
Throw_afterWrite(op, userId, id, stage, err) ==
  /\ last' = Call(op, userId, id, stage, err, absent)
  /\ publicWatchlists' = <<>>
  /\ UNCHANGED <<watchlists, watchlistCoins, notes, userWatchlists, coinWatchlists, idCounter, now, rateLimitStore, proxyState, unpurged, held>>

\* a call that throws: nothing but `last` changes
Throw(op, userId, id, stage, err) ==
  /\ last' = Call(op, userId, id, stage, err, absent)
  /\ UNCHANGED <<store, idCounter, now, rateLimitStore, proxyState, unpurged, held>>

Init ==
  /\ watchlists = EmptyMap
  /\ watchlistCoins = EmptyMap
  /\ notes = EmptyMap
  /\ userWatchlists = EmptyMap
  /\ publicWatchlists = <<>>
  /\ coinWatchlists = EmptyMap
  /\ idCounter = 1
  /\ now = 0
  /\ rateLimitStore = EmptyMap
  /\ unpurged = [table |-> EmptyMap, err |-> "OK", ret |-> absent]
  /\ held = absent
  /\ coinGeckoProxy = 0
  /\ connectionPromise = 0
  /\ proxies = <<>>
  /\ promises = <<>>
  /\ disconnects = <<>>
  /\ callers = <<>>
  /\ last = Call("init", undefined, <<0, 0>>, "store", "OK", absent)

\* database.createWatchlist(userId, params)
database_createWatchlist(userId, params) ==
  LET id == generateId
      watchlist == [id |-> id, userId |-> userId, name |-> params.name,
                    description |-> params.description,
                    isPublic |-> params.isPublic,
                    createdAt |-> now, updatedAt |-> now,
                    tags |-> params.tags]
  IN /\ IdsLeft
     /\ idCounter' = idCounter + 1
     /\ watchlists' = MapSet(watchlists, id, watchlist)
     /\ watchlistCoins' = MapSet(watchlistCoins, id, <<>>)
     /\ userWatchlists' = MapSet(userWatchlists, userId, Append(MapGet(userWatchlists, userId, <<>>), id))
     /\ publicWatchlists' = IF watchlist.isPublic THEN SetAdd(publicWatchlists, id) ELSE publicWatchlists
     /\ last' = Call("createWatchlist", userId, id, "store", "OK", absent)
     /\ UNCHANGED <<notes, coinWatchlists, now, rateLimitStore, proxyState, unpurged, held>>

\* service.createWatchlist(userId, params)
createWatchlist(userId, name, description, isPublic, tags) ==
  IF ~IsSome(name) \/ Trim(Val(name)) = <<>>
  THEN Throw("createWatchlist", userId, <<0, 0>>, "service", "VALIDATION_ERROR")
  ELSE database_createWatchlist(userId,
         [name |-> Trim(Val(name)),
          description |-> OptTrim(description),
          isPublic |-> IF IsSome(isPublic) THEN Val(isPublic) ELSE FALSE,
          tags |-> IF IsSome(tags) THEN Val(tags) ELSE <<>>])

\* service.getWatchlist / database.getWatchlist(watchlistId, userId)
getWatchlist(watchlistId, userId) ==
  LET err == getWatchlistErr(watchlistId, userId)
  IN IF err # "OK" THEN Throw("getWatchlist", userId, watchlistId, "store", err)
     ELSE Return("getWatchlist", userId, watchlistId, Some(enrichWatchlistWithCoins(watchlistId)))

\* updatePublicIndex without the delete branch
updatePublicIndex_addOnly(index, watchlistId, updates) ==
  IF IsSome(updates.isPublic) /\ Val(updates.isPublic) THEN SetAdd(index, watchlistId) ELSE index

\* the public index after updateWatchlist (database.ts:136-142)
updatePublicIndex(index, watchlistId, updates) ==
  IF IsSome(updates.isPublic)
  THEN IF Val(updates.isPublic) THEN SetAdd(index, watchlistId) ELSE SetDelete(index, watchlistId)
  ELSE index

\* mergeWatchlist taking the description from the updates even when they have none
mergeWatchlist_overwrite(watchlist, updates) ==
  [watchlist EXCEPT
     !.name = IF IsSome(updates.name) THEN Val(updates.name) ELSE @,
     !.description = updates.description,
     !.isPublic = IF IsSome(updates.isPublic) THEN Val(updates.isPublic) ELSE @,
     !.tags = IF IsSome(updates.tags) THEN Val(updates.tags) ELSE @,
     !.updatedAt = now]

\* { ...watchlist, ...updates, updatedAt: new Date() }
mergeWatchlist(watchlist, updates) ==
  [watchlist EXCEPT
     !.name = IF IsSome(updates.name) THEN Val(updates.name) ELSE @,
     !.description = IF IsSome(updates.description) THEN updates.description ELSE @,
     !.isPublic = IF IsSome(updates.isPublic) THEN Val(updates.isPublic) ELSE @,
     !.tags = IF IsSome(updates.tags) THEN Val(updates.tags) ELSE @,
     !.updatedAt = now]

\* database.updateWatchlist(watchlistId, userId, updates)
database_updateWatchlist(watchlistId, userId, updates) ==
  LET err == writeWatchlistErr(watchlistId, userId)
  IN IF err # "OK" THEN Throw("updateWatchlist", userId, watchlistId, "store", err)
     ELSE /\ watchlists' = MapSet(watchlists, watchlistId, mergeWatchlist(watchlists[watchlistId], updates))
          /\ publicWatchlists' = updatePublicIndex(publicWatchlists, watchlistId, updates)
          /\ last' = Call("updateWatchlist", userId, watchlistId, "store", "OK", absent)
          /\ UNCHANGED <<watchlistCoins, notes, userWatchlists, coinWatchlists, idCounter, now, rateLimitStore, proxyState, unpurged, held>>

\* service.updateWatchlist(watchlistId, userId, params)
updateWatchlist(watchlistId, userId, params) ==
  database_updateWatchlist(watchlistId, userId,
    [name |-> OptTrim(params.name),
     description |-> OptTrim(params.description),
     isPublic |-> params.isPublic,
     tags |-> params.tags])

\* deleteNotesOf keeping every note
deleteNotesOf_keepAll(allNotes, watchlistId) == allNotes

\* the notes left after deleteWatchlist (database.ts:168-172)
deleteNotesOf(allNotes, watchlistId) ==
  [k \in {x \in DOMAIN allNotes : allNotes[x].watchlistId # watchlistId} |-> allNotes[k]]

\* deleteFromUserIndex leaving the owner's entry as it is
deleteFromUserIndex_keep(index, userId, watchlistId) == index

\* the owner index after deleteWatchlist (database.ts:164-165)
deleteFromUserIndex(index, userId, watchlistId) ==
  MapSet(index, userId, FilterOut(MapGet(index, userId, <<>>), watchlistId))

\* service.deleteWatchlist / database.deleteWatchlist(watchlistId, userId)
deleteWatchlist(watchlistId, userId) ==
  LET err == writeWatchlistErr(watchlistId, userId)
  IN IF err # "OK" THEN Throw("deleteWatchlist", userId, watchlistId, "store", err)
     ELSE /\ watchlists' = MapDelete(watchlists, watchlistId)
          /\ watchlistCoins' = MapDelete(watchlistCoins, watchlistId)
          /\ publicWatchlists' = SetDelete(publicWatchlists, watchlistId)
          /\ userWatchlists' = deleteFromUserIndex(userWatchlists, userId, watchlistId)
          /\ notes' = deleteNotesOf(notes, watchlistId)
          /\ last' = Call("deleteWatchlist", userId, watchlistId, "store", "OK", absent)
          /\ UNCHANGED <<coinWatchlists, idCounter, now, rateLimitStore, proxyState, unpurged, held>>

\* service.getMyWatchlists / database.getUserWatchlists(userId)
getMyWatchlists(userId) ==
  LET watchlistIds == MapGet(userWatchlists, userId, <<>>)
      existing == SelectSeq(watchlistIds, LAMBDA id : id \in DOMAIN watchlists)
  IN Return("getMyWatchlists", userId, <<0, 0>>,
            Some([i \in 1..Len(existing) |-> enrichWatchlistWithCoins(existing[i])]))

\* hasCoin finding every coin
hasCoin_always(coins, coinId) == TRUE

\* hasCoin never finding the coin
hasCoin_never(coins, coinId) == FALSE

\* coins.some(coin => coin.coinId === coinId)
hasCoin(coins, coinId) == \E i \in 1..Len(coins) : coins[i].coinId = coinId

\* database.addCoinToWatchlist(watchlistId, userId, params)
database_addCoinToWatchlist(watchlistId, userId, params) ==
  LET err == ownerGateErr(watchlistId, userId)
      coins == MapGet(watchlistCoins, watchlistId, <<>>)
      coin == [id |-> generateId, watchlistId |-> watchlistId, coinId |-> params.coinId,
               symbol |-> params.symbol, name |-> params.name, addedAt |-> now,
               targetPrice |-> params.targetPrice, notes |-> params.notes]
  IN IF err # "OK" THEN Throw("addCoinToWatchlist", userId, watchlistId, "store", err)
     ELSE IF hasCoin(coins, params.coinId)
     THEN Throw("addCoinToWatchlist", userId, watchlistId, "store", "VALIDATION_ERROR")
     ELSE /\ IdsLeft
          /\ idCounter' = idCounter + 1
          /\ watchlistCoins' = MapSet(watchlistCoins, watchlistId, Append(coins, coin))
          /\ coinWatchlists' = MapSet(coinWatchlists, params.coinId,
                                      Append(MapGet(coinWatchlists, params.coinId, <<>>), watchlistId))
          /\ last' = Call("addCoinToWatchlist", userId, watchlistId, "store", "OK", absent)
          /\ UNCHANGED <<watchlists, notes, userWatchlists, publicWatchlists, now, rateLimitStore, proxyState, unpurged, held>>

\* service.addCoinToWatchlist(watchlistId, userId, params)
addCoinToWatchlist(watchlistId, userId, coinId, targetPrice, coinNotes) ==
  IF Trim(coinId) = <<>>
  THEN Throw("addCoinToWatchlist", userId, watchlistId, "service", "VALIDATION_ERROR")
  ELSE database_addCoinToWatchlist(watchlistId, userId,
         [coinId |-> Trim(coinId),
          symbol |-> ToUpperCase(coinId),
          name |-> coinId,
          targetPrice |-> targetPrice,
          notes |-> OptTrim(coinNotes)])

\* a filter that keeps no item at all
filterCoins_all(coins, coinId) == <<>>

\* coins.filter(coin => coin.coinId !== coinId)
RECURSIVE filterCoins(_, _)
filterCoins(coins, coinId) ==
  IF coins = <<>> THEN <<>>
  ELSE IF Head(coins).coinId = coinId THEN filterCoins(Tail(coins), coinId)
  ELSE <<Head(coins)>> \o filterCoins(Tail(coins), coinId)

\* database.removeCoinFromWatchlist(watchlistId, userId, coinId)
database_removeCoinFromWatchlist(watchlistId, userId, coinId) ==
  LET err == ownerGateErr(watchlistId, userId)
      coins == MapGet(watchlistCoins, watchlistId, <<>>)
      filteredCoins == filterCoins(coins, coinId)
  IN IF err # "OK" THEN Throw("removeCoinFromWatchlist", userId, watchlistId, "store", err)
     ELSE IF Len(filteredCoins) = Len(coins)
     THEN Throw("removeCoinFromWatchlist", userId, watchlistId, "store", "NOT_FOUND")
     ELSE /\ watchlistCoins' = MapSet(watchlistCoins, watchlistId, filteredCoins)
          /\ coinWatchlists' = MapSet(coinWatchlists, coinId,
                                      FilterOut(MapGet(coinWatchlists, coinId, <<>>), watchlistId))
          /\ last' = Call("removeCoinFromWatchlist", userId, watchlistId, "store", "OK", absent)
          /\ UNCHANGED <<watchlists, notes, userWatchlists, publicWatchlists, idCounter, now, rateLimitStore, proxyState, unpurged, held>>

\* service.removeCoinFromWatchlist(watchlistId, userId, coinId)
removeCoinFromWatchlist(watchlistId, userId, coinId) ==
  database_removeCoinFromWatchlist(watchlistId, userId, Trim(coinId))

\* coins.findIndex(coin => coin.coinId === coinId), 0 for -1
findIndex(coins, coinId) ==
  IF hasCoin(coins, coinId)
  THEN CHOOSE i \in 1..Len(coins) : coins[i].coinId = coinId /\ \A j \in 1..(i - 1) : coins[j].coinId # coinId
  ELSE 0

\* mergeCoin taking both fields from the updates even when they are not given
mergeCoin_replace(coin, updates) ==
  [coin EXCEPT !.targetPrice = updates.targetPrice, !.notes = updates.notes]

\* { ...coins[coinIndex], ...updates }
mergeCoin(coin, updates) ==
  [coin EXCEPT
     !.targetPrice = IF IsSome(updates.targetPrice) THEN updates.targetPrice ELSE @,
     !.notes = IF IsSome(updates.notes) THEN updates.notes ELSE @]

\* database.updateCoinInWatchlist(watchlistId, userId, coinId, updates)
database_updateCoinInWatchlist(watchlistId, userId, coinId, updates) ==
  LET err == ownerGateErr(watchlistId, userId)
      coins == MapGet(watchlistCoins, watchlistId, <<>>)
      coinIndex == findIndex(coins, coinId)
  IN IF err # "OK" THEN Throw("updateCoinInWatchlist", userId, watchlistId, "store", err)
     ELSE IF coinIndex = 0
     THEN Throw("updateCoinInWatchlist", userId, watchlistId, "store", "NOT_FOUND")
     ELSE /\ watchlistCoins' = MapSet(watchlistCoins, watchlistId,
                                      [coins EXCEPT ![coinIndex] = mergeCoin(coins[coinIndex], updates)])
          /\ last' = Call("updateCoinInWatchlist", userId, watchlistId, "store", "OK", absent)
          /\ UNCHANGED <<watchlists, notes, userWatchlists, publicWatchlists, coinWatchlists, idCounter, now, rateLimitStore, proxyState, unpurged, held>>

\* service.updateCoinInWatchlist(watchlistId, userId, params)
updateCoinInWatchlist(watchlistId, userId, coinId, targetPrice, coinNotes) ==
  database_updateCoinInWatchlist(watchlistId, userId, Trim(coinId),
    [targetPrice |-> targetPrice, notes |-> OptTrim(coinNotes)])

\* database.addNote(watchlistId, userId, content, coinId)
database_addNote(watchlistId, userId, content, coinId) ==
  LET err == ownerGateErr(watchlistId, userId)
      note == [id |-> generateId, watchlistId |-> watchlistId, coinId |-> coinId,
               content |-> content, createdAt |-> now, updatedAt |-> now]
  IN IF err # "OK" THEN Throw("addNote", userId, watchlistId, "store", err)
     ELSE /\ IdsLeft
          /\ idCounter' = idCounter + 1
          /\ notes' = MapSet(notes, note.id, note)
          /\ last' = Call("addNote", userId, watchlistId, "store", "OK", absent)
          /\ UNCHANGED <<watchlists, watchlistCoins, userWatchlists, publicWatchlists, coinWatchlists, now, rateLimitStore, proxyState, unpurged, held>>

\* service.addWatchlistNote(watchlistId, userId, params)
addWatchlistNote(watchlistId, userId, content, coinId) ==
  IF Trim(content) = <<>>
  THEN Throw("addNote", userId, watchlistId, "service", "VALIDATION_ERROR")
  ELSE database_addNote(watchlistId, userId, Trim(content), OptTrim(coinId))

\* the filter of getWatchlistNotes (database.ts:326-330)
notesFilter(watchlistId, coinId) ==
  {n \in {notes[k] : k \in DOMAIN notes} :
     /\ n.watchlistId = watchlistId
     /\ ~(IsSome(coinId) /\ Val(coinId) # <<>> /\ n.coinId # coinId)}

\* outcome of the checks of database.getWatchlistNotes: getWatchlist, then
\* watchlist.userId !== userId && !watchlist.isPublic (database.ts:319-323)
getWatchlistNotesErr(watchlistId, userId) ==
  IF getWatchlistErr(watchlistId, userId) # "OK" THEN getWatchlistErr(watchlistId, userId)
  ELSE IF NotOwner(watchlists[watchlistId], userId) /\ ~watchlists[watchlistId].isPublic THEN "FORBIDDEN"
  ELSE "OK"

\* service.getWatchlistNotes / database.getWatchlistNotes(watchlistId, userId, coinId)
getWatchlistNotes(watchlistId, userId, coinId) ==
  LET err == getWatchlistNotesErr(watchlistId, userId)
  IN IF err # "OK" THEN Throw("getWatchlistNotes", userId, watchlistId, "store", err)
     ELSE Return("getWatchlistNotes", userId, watchlistId, Some(notesFilter(watchlistId, OptTrim(coinId))))

\* noteGateErr with the read check of getWatchlist only, without the owner check
noteGateErr_readGate(noteId, userId) ==
  IF noteId \notin DOMAIN notes THEN "NOT_FOUND"
  ELSE getWatchlistErr(notes[noteId].watchlistId, userId)

\* outcome of the prologue of updateNote and deleteNote
noteGateErr(noteId, userId) ==
  IF noteId \notin DOMAIN notes THEN "NOT_FOUND"
  ELSE ownerGateErr(notes[noteId].watchlistId, userId)

\* database.updateNote(noteId, userId, content)
database_updateNote(noteId, userId, content) ==
  LET err == noteGateErr(noteId, userId)
  IN IF err # "OK" THEN Throw("updateNote", userId, noteId, "store", err)
     ELSE /\ notes' = MapSet(notes, noteId, [notes[noteId] EXCEPT !.content = content, !.updatedAt = now])
          /\ last' = Call("updateNote", userId, noteId, "store", "OK", absent)
          /\ UNCHANGED <<watchlists, watchlistCoins, userWatchlists, publicWatchlists, coinWatchlists, idCounter, now, rateLimitStore, proxyState, unpurged, held>>

\* service.updateNote(noteId, userId, params)
updateNote(noteId, userId, content) ==
  IF Trim(content) = <<>>
  THEN Throw("updateNote", userId, noteId, "service", "VALIDATION_ERROR")
  ELSE database_updateNote(noteId, userId, Trim(content))

\* service.deleteNote / database.deleteNote(noteId, userId)
deleteNote(noteId, userId) ==
  LET err == noteGateErr(noteId, userId)
  IN IF err # "OK" THEN Throw("deleteNote", userId, noteId, "store", err)
     ELSE /\ notes' = MapDelete(notes, noteId)
          /\ last' = Call("deleteNote", userId, noteId, "store", "OK", absent)
          /\ UNCHANGED <<watchlists, watchlistCoins, userWatchlists, publicWatchlists, coinWatchlists, idCounter, now, rateLimitStore, proxyState, unpurged, held>>

\* ------------------------------------------------------------------------
\* The public directory: getPublicWatchlists
\* ------------------------------------------------------------------------
DEFAULT_PAGE_SIZE == 20
MAX_PAGE_SIZE == 100

Max(a, b) == IF a >= b THEN a ELSE b
Min(a, b) == IF a <= b THEN a ELSE b

\* n || dflt for an optional number: undefined and 0 are falsy
OrDefault(n, dflt) == IF IsSome(n) /\ Val(n) # 0 THEN Val(n) ELSE dflt

\* Math.max(1, params.page || 1)
effectivePage(page) == Max(1, OrDefault(page, 1))

\* Math.min(MAX_PAGE_SIZE, Math.max(1, params.limit || DEFAULT_PAGE_SIZE))
effectiveLimit(limit) == Min(MAX_PAGE_SIZE, Max(1, OrDefault(limit, DEFAULT_PAGE_SIZE)))

LowerChar(c) == IF c = "A" THEN "a" ELSE IF c = "B" THEN "b" ELSE c

\* String.prototype.toLowerCase
ToLowerCase(s) == [i \in 1..Len(s) |-> LowerChar(s[i])]

\* String.prototype.includes
Includes(s, t) == \E i \in 0..(Len(s) - Len(t)) : SubSeq(s, i + 1, i + Len(t)) = t

\* Slice returning everything from start on
Slice_toEnd(list, start, end) == SubSeq(list, start + 1, Len(list))

\* Array.prototype.slice(start, end) for 0 <= start <= end
Slice(list, start, end) == SubSeq(list, start + 1, Min(end, Len(list)))

\* params.tags?.map(tag => tag.trim()).filter(tag => tag.length > 0)
normalizeTags(tags) ==
  IF IsSome(tags)
  THEN Some(SelectSeq([i \in 1..Len(Val(tags)) |-> Trim(Val(tags)[i])], LAMBDA tag : tag # <<>>))
  ELSE absent

\* publicList followed by the watchlists of alice that are not in the index
publicList_all == publicWatchlists \o
                  SelectSeq(MapGet(userWatchlists, "alice", <<>>), LAMBDA id : id \notin Range(publicWatchlists))

\* Array.from(publicWatchlists).map(id => watchlists.get(id)).filter(w => w !== undefined)
publicList == SelectSeq(publicWatchlists, LAMBDA id : id \in DOMAIN watchlists)

\* matchesSearch looking at the name only
matchesSearch_nameOnly(w, search) ==
  (IsSome(search) /\ Val(search) # <<>>) => Includes(ToLowerCase(w.name), ToLowerCase(Val(search)))

\* the search filter (database.ts:186-192)
matchesSearch(w, search) ==
  (IsSome(search) /\ Val(search) # <<>>) =>
    \/ Includes(ToLowerCase(w.name), ToLowerCase(Val(search)))
    \/ (IsSome(w.description) /\ Includes(ToLowerCase(Val(w.description)), ToLowerCase(Val(search))))

\* the tags filter (database.ts:195-199)
matchesTags(w, tags) ==
  (IsSome(tags) /\ Len(Val(tags)) > 0) =>
    \E i \in 1..Len(Val(tags)) : Val(tags)[i] \in Range(w.tags)

\* the public watchlists that pass the filters, enriched, in index order
matchingPublicWatchlists(search, tags) ==
  LET ids == SelectSeq(publicList, LAMBDA id : matchesSearch(watchlists[id], search) /\ matchesTags(watchlists[id], tags))
  IN [i \in 1..Len(ids) |-> enrichWatchlistWithCoins(ids[i])]

\* paginate with the offset page * limit
paginate_skipFirst(list, page, limit) ==
  LET p == OrDefault(Some(page), 1)
      l == OrDefault(Some(limit), DEFAULT_PAGE_SIZE)
      offset == p * l
  IN [watchlists |-> Slice(list, offset, offset + l), page |-> p, limit |-> l, total |-> Len(list)]

\* database.getPublicWatchlists: offset, total, slice (database.ts:176-178, 201-209)
paginate(list, page, limit) ==
  LET p == OrDefault(Some(page), 1)
      l == OrDefault(Some(limit), DEFAULT_PAGE_SIZE)
      offset == (p - 1) * l
  IN [watchlists |-> Slice(list, offset, offset + l), page |-> p, limit |-> l, total |-> Len(list)]

\* service.getPublicWatchlists over a filtered list
paginatedResponse(list, page, limit) ==
  LET p == effectivePage(page)
      l == effectiveLimit(limit)
      result == paginate(list, p, l)
  IN [data |-> result.watchlists, page |-> result.page, limit |-> result.limit,
      total |-> result.total, hasNext |-> p * l < result.total, hasPrevious |-> p > 1]

\* service.getPublicWatchlists(params)
getPublicWatchlists(params) ==
  /\ last' = Call("getPublicWatchlists", undefined, params, "store", "OK",
                  Some(paginatedResponse(matchingPublicWatchlists(OptTrim(params.search), normalizeTags(params.tags)),
                                         params.page, params.limit)))
  /\ UNCHANGED <<store, idCounter, now, rateLimitStore, proxyState, unpurged, held>>

\* Array.from(watchlistCoins.values()).reduce((sum, coins) => sum + coins.length, 0)
RECURSIVE SumLengths(_, _)
SumLengths(m, keys) ==
  IF keys = {} THEN 0
  ELSE LET k == CHOOSE x \in keys : TRUE
       IN Len(m[k]) + SumLengths(m, keys \ {k})

\* a count of the item lists instead of the items
coinsCount_lists(m) == Cardinality(DOMAIN m)

\* the coinsCount field of getStats
coinsCount(m) == SumLengths(m, DOMAIN m)

\* the record database.getStats() returns
stats ==
  [watchlistsCount |-> Cardinality(DOMAIN watchlists),
   coinsCount |-> coinsCount(watchlistCoins),
   notesCount |-> Cardinality(DOMAIN notes),
   publicWatchlistsCount |-> Len(publicWatchlists),
   usersCount |-> Cardinality(DOMAIN userWatchlists)]

\* getDatabaseStats() / database.getStats()
getStats ==
  /\ last' = Call("getStats", undefined, <<0, 0>>, "store", "OK", Some(stats))
  /\ UNCHANGED <<store, idCounter, now, rateLimitStore, proxyState, unpurged, held>>

\* a reset that clears the collections and keeps the id counter
reset_keepCounter ==
  /\ watchlists' = EmptyMap
  /\ watchlistCoins' = EmptyMap
  /\ notes' = EmptyMap
  /\ userWatchlists' = EmptyMap
  /\ publicWatchlists' = <<>>
  /\ coinWatchlists' = EmptyMap
  /\ last' = Call("reset", undefined, <<0, 0>>, "store", "OK", absent)
  /\ UNCHANGED <<idCounter, now, rateLimitStore, proxyState, unpurged, held>>

\* database.reset()
reset ==
  /\ watchlists' = EmptyMap
  /\ watchlistCoins' = EmptyMap
  /\ notes' = EmptyMap
  /\ userWatchlists' = EmptyMap
  /\ publicWatchlists' = <<>>
  /\ coinWatchlists' = EmptyMap
  /\ idCounter' = 1
  /\ last' = Call("reset", undefined, <<0, 0>>, "store", "OK", absent)
  /\ UNCHANGED <<now, rateLimitStore, proxyState, unpurged, held>>

\* Date.now() advances
Tick ==
  /\ now < MaxTime
  /\ now' = now + 1
  /\ UNCHANGED <<store, idCounter, last, rateLimitStore, proxyState, unpurged, held>>

\* the ids a caller may name: the existing ones and one that is not
WatchlistIdInputs == (DOMAIN watchlists) \cup {<<0, 0>>}
NoteIdInputs == (DOMAIN notes) \cup {<<0, 0>>}

\* the operations that write to the store when they succeed
WriteOps == {"createWatchlist", "updateWatchlist", "deleteWatchlist", "addCoinToWatchlist",
             "removeCoinFromWatchlist", "updateCoinInWatchlist", "addNote", "updateNote",
             "deleteNote", "reset"}

\* The last call was the constructor or a successful write. A read or a call
\* that throws leaves the store, the id counter and the clock as they are, and
\* the next call overwrites `last`: the state it leads to has the continuations
\* of the state it was taken from. So the calls are explored from the states a
\* write has produced, and the outcome of a read or of a rejected call is an
\* end point: every pair of a reachable store and an outcome of a call on it
\* is reached, without the runs that differ only in the reads and rejected
\* calls between two writes.
AfterWrite == last.op = "init" \/ (last.op \in WriteOps /\ last.err = "OK")

CreateWatchlist ==
  AfterWrite /\ \E u \in Requesters, n \in NameInputs, d \in DescriptionInputs, p \in IsPublicInputs, t \in TagsInputs :
    createWatchlist(u, n, d, p, t)

GetMyWatchlists == AfterWrite /\ \E u \in Requesters : getMyWatchlists(u)

GetWatchlist == AfterWrite /\ \E w \in WatchlistIdInputs, u \in Requesters : getWatchlist(w, u)

UpdateWatchlist ==
  AfterWrite /\ \E w \in WatchlistIdInputs, u \in Requesters, p \in UpdateInputs : updateWatchlist(w, u, p)

DeleteWatchlist == AfterWrite /\ \E w \in WatchlistIdInputs, u \in Requesters : deleteWatchlist(w, u)

AddCoinToWatchlist ==
  AfterWrite /\ \E w \in WatchlistIdInputs, u \in Requesters, c \in CoinIdInputs, t \in AddTargetPriceInputs, n \in CoinNotesInputs :
    addCoinToWatchlist(w, u, c, t, n)

RemoveCoinFromWatchlist ==
  AfterWrite /\ \E w \in WatchlistIdInputs, u \in Requesters, c \in CoinIdInputs : removeCoinFromWatchlist(w, u, c)

UpdateCoinInWatchlist ==
  AfterWrite /\ \E w \in WatchlistIdInputs, u \in Requesters, c \in CoinIdInputs, t \in TargetPriceInputs, n \in CoinNotesInputs :
    updateCoinInWatchlist(w, u, c, t, n)

AddWatchlistNote ==
  AfterWrite /\ \E w \in WatchlistIdInputs, u \in Requesters, c \in ContentInputs, k \in NoteCoinIdInputs :
    addWatchlistNote(w, u, c, k)

GetWatchlistNotes ==
  AfterWrite /\ \E w \in WatchlistIdInputs, u \in Requesters, k \in NoteCoinIdInputs : getWatchlistNotes(w, u, k)

UpdateNote == AfterWrite /\ \E n \in NoteIdInputs, u \in Requesters, c \in UpdateContentInputs : updateNote(n, u, c)

DeleteNote == AfterWrite /\ \E n \in NoteIdInputs, u \in Requesters : deleteNote(n, u)

Reset == AfterWrite /\ reset

GetStats == AfterWrite /\ getStats

Next ==
  \/ CreateWatchlist
  \/ GetMyWatchlists
  \/ GetWatchlist
  \/ UpdateWatchlist
  \/ DeleteWatchlist
  \/ AddCoinToWatchlist
  \/ RemoveCoinFromWatchlist
  \/ UpdateCoinInWatchlist
  \/ AddWatchlistNote
  \/ GetWatchlistNotes
  \/ UpdateNote
  \/ DeleteNote
  \/ Reset
  \/ GetStats

Spec == Init /\ [][Next]_vars

\* the same program with a clock that advances between calls
ClockTick == AfterWrite /\ Tick

NextClock == Next \/ ClockTick

SpecClock == Init /\ [][NextClock]_vars

\* the operations that issue an id or delete an entity, with the clock
NextIds ==
  \/ CreateWatchlist
  \/ DeleteWatchlist
  \/ AddCoinToWatchlist
  \/ RemoveCoinFromWatchlist
  \/ AddWatchlistNote
  \/ DeleteNote
  \/ Reset
  \/ ClockTick

SpecIds == Init /\ [][NextIds]_vars

\* ------------------------------------------------------------------------
\* The public directory: watchlists of one owner with names, descriptions
\* and tags that the filters tell apart, listed by getPublicWatchlists
\* ------------------------------------------------------------------------
ListingNameInputs == {Some(<<"A">>), Some(<<"b">>)}
ListingDescriptionInputs == {absent, Some(<<"a">>)}
ListingTagsInputs == {absent, Some(<< <<"t">> >>)}
ListingIsPublicInputs == {Some(TRUE), Some(FALSE)}
ListingUpdateInputs ==
  {NoPatch,
   [NoPatch EXCEPT !.name = Some(<<" ", "b">>)],
   [NoPatch EXCEPT !.description = Some(<<"a">>)],
   [NoPatch EXCEPT !.isPublic = Some(TRUE)],
   [NoPatch EXCEPT !.isPublic = Some(FALSE)],
   [NoPatch EXCEPT !.tags = Some(<< <<"t">> >>)],
   [NoPatch EXCEPT !.name = Some(<<"A">>), !.tags = Some(<<>>)]}
SearchInputs == {absent, Some(<<"a">>), Some(<<"B", " ">>), Some(<<" ">>)}
TagFilterInputs == {absent, Some(<< <<" ">> >>), Some(<< <<"u">>, <<" ", "t">> >>)}
PagingInputs == {[page |-> absent, limit |-> absent],
                 [page |-> Some(2), limit |-> Some(1)]}
ListingCoinIdInputs == {<<"a">>, <<"b">>}

\* the calls of the owner; the calls of the other requesters are in Spec
CreateListing ==
  AfterWrite /\ \E n \in ListingNameInputs, d \in ListingDescriptionInputs, p \in ListingIsPublicInputs, t \in ListingTagsInputs :
    createWatchlist("alice", n, d, p, t)

UpdateListing ==
  AfterWrite /\ \E w \in DOMAIN watchlists, p \in ListingUpdateInputs : updateWatchlist(w, "alice", p)

DeleteListing == AfterWrite /\ \E w \in DOMAIN watchlists : deleteWatchlist(w, "alice")

AddListingCoin ==
  AfterWrite /\ \E w \in DOMAIN watchlists, c \in ListingCoinIdInputs : addCoinToWatchlist(w, "alice", c, absent, absent)

GetPublicWatchlists ==
  AfterWrite /\ \E pg \in PagingInputs, s \in SearchInputs, t \in TagFilterInputs :
    getPublicWatchlists([page |-> pg.page, limit |-> pg.limit, search |-> s, tags |-> t])

NextPublic ==
  \/ CreateListing
  \/ UpdateListing
  \/ DeleteListing
  \/ AddListingCoin
  \/ GetPublicWatchlists

SpecPublic == Init /\ [][NextPublic]_vars

\* ------------------------------------------------------------------------
\* Paging of getPublicWatchlists as a function of the filtered list
\* ------------------------------------------------------------------------
TotalInputs == 0..MaxTotal
PageInputs == {absent} \cup {Some(n) : n \in {-1, 0, 1, 2, 3, 4}}
LimitInputs == {absent} \cup {Some(n) : n \in {-1, 0, 1, 2, 20, 44, 45, 100, 101}}

\* a filtered list of T entries
ListOf(T) == [i \in 1..T |-> i]

\* getPublicWatchlists on a directory whose filtered list has T entries; one
\* call per behaviour, since the result depends on the inputs only
Paginate ==
  \E T \in TotalInputs, page \in PageInputs, limit \in LimitInputs :
    /\ last.op = "init"
    /\ last' = Call("paginate", undefined, [total |-> T, page |-> page, limit |-> limit], "service", "OK",
                    Some(paginatedResponse(ListOf(T), page, limit)))
    /\ UNCHANGED <<store, idCounter, now, rateLimitStore, proxyState, unpurged, held>>

NextPaging == Paginate

SpecPaging == Init /\ [][NextPaging]_vars

\* ------------------------------------------------------------------------
\* A store with a full watchlist
\* ------------------------------------------------------------------------
\* the coin id of the i-th item: "a", "aa", "aaa", ...
FullCoinId(i) == [k \in 1..i |-> "a"]

\* the item addCoinToWatchlist(<<0, 1>>, "alice", {coinId: FullCoinId(i)}) adds
FullCoin(i) ==
  [id |-> <<0, i + 1>>, watchlistId |-> <<0, 1>>, coinId |-> FullCoinId(i),
   symbol |-> ToUpperCase(FullCoinId(i)), name |-> FullCoinId(i), addedAt |-> 0,
   targetPrice |-> absent, notes |-> absent]

\* The state after createWatchlist("alice", {name: "a"}) and n calls of
\* addCoinToWatchlist by alice with the coin ids FullCoinId(1..n), all at
\* time 0.
StoreWith(n) ==
  /\ watchlists = [w \in {<<0, 1>>} |->
                     [id |-> <<0, 1>>, userId |-> "alice", name |-> <<"a">>,
                      description |-> absent, isPublic |-> FALSE,
                      createdAt |-> 0, updatedAt |-> 0, tags |-> <<>>]]
  /\ watchlistCoins = [w \in {<<0, 1>>} |-> [i \in 1..n |-> FullCoin(i)]]
  /\ notes = EmptyMap
  /\ userWatchlists = [u \in {"alice"} |-> << <<0, 1>> >>]
  /\ publicWatchlists = <<>>
  /\ coinWatchlists = [c \in {FullCoinId(i) : i \in 1..n} |-> << <<0, 1>> >>]
  /\ idCounter = n + 2
  /\ now = 0
  /\ rateLimitStore = EmptyMap
  /\ unpurged = [table |-> EmptyMap, err |-> "OK", ret |-> absent]
  /\ held = absent
  /\ coinGeckoProxy = 0
  /\ connectionPromise = 0
  /\ proxies = <<>>
  /\ promises = <<>>
  /\ disconnects = <<>>
  /\ callers = <<>>
  /\ last = Call("addCoinToWatchlist", "alice", <<0, 1>>, "store", "OK", absent)

InitFull == StoreWith(MAX_COINS_PER_WATCHLIST)

NextFull ==
  \/ CreateWatchlist
  \/ AddCoinToWatchlist
  \/ GetWatchlist
  \/ GetStats

SpecFull == InitFull /\ [][NextFull]_vars

\* ------------------------------------------------------------------------
\* Error handling and validation helpers
\* ------------------------------------------------------------------------
\* values of type `any`: the JavaScript type and, for a string, its characters
Str(v) == [type |-> "string", v |-> v]
ValueInputs == {[type |-> "undefined", v |-> <<>>], [type |-> "null", v |-> <<>>],
                [type |-> "number", v |-> <<>>],
                Str(<<>>), Str(<<" ">>), Str(<<" ", " ">>), Str(<<" ", "a">>),
                Str(<<"a", " ", "b", " ">>), Str(<<"a", "b", "c">>)}
MaxLengthInputs == {absent, Some(0), Some(1), Some(2), Some(3)}

\* validateRequiredParam(value, paramName): the error it throws, or OK
validateRequiredParam(value) ==
  IF value.type \in {"undefined", "null"} \/ (value.type = "string" /\ value.v = <<>>)
  THEN "VALIDATION_ERROR"
  ELSE "OK"

\* validateStringParam(value, paramName, maxLength): the error it throws or
\* the string it returns
validateStringParam(value, maxLength) ==
  LET trimmed == Trim(value.v)
  IN IF validateRequiredParam(value) # "OK" THEN [err |-> "VALIDATION_ERROR", ret |-> absent]
     ELSE IF value.type # "string" THEN [err |-> "VALIDATION_ERROR", ret |-> absent]
     ELSE IF Len(trimmed) = 0 THEN [err |-> "VALIDATION_ERROR", ret |-> absent]
     ELSE IF IsSome(maxLength) /\ Val(maxLength) # 0 /\ Len(trimmed) > Val(maxLength)
     THEN [err |-> "VALIDATION_ERROR", ret |-> absent]
     ELSE [err |-> "OK", ret |-> Some(trimmed)]

\* a call of validateStringParam
ValidateStringParam ==
  /\ AfterWrite
  /\ \E value \in ValueInputs, maxLength \in MaxLengthInputs :
       LET r == validateStringParam(value, maxLength)
       IN last' = Call("validateStringParam", undefined, [value |-> value, maxLength |-> maxLength],
                       "helper", r.err, r.ret)
  /\ UNCHANGED <<store, idCounter, now, rateLimitStore, proxyState, unpurged, held>>

\* process.env.NODE_ENV of the deployment; undefined when it is not set
NodeEnvInputs == {"production", "development", "test", undefined}

\* what a wrapped function throws: a WatchlistError with its code, message
\* and details, or another Error with its message
WatchlistErrors ==
  [kind : {"WatchlistError"}, code : {"NOT_FOUND", "INTERNAL_ERROR"},
   message : {"not found"}, details : {absent, Some("d")}]
OtherErrors ==
  [kind : {"Error"}, code : {"none"}, message : {"boom", ""}, details : {absent}]
FaultInputs == WatchlistErrors \cup OtherErrors

\* createErrorResponse that attaches the message outside production
createErrorResponse_leak(error, nodeEnv) ==
  IF error.kind = "WatchlistError"
  THEN [error |-> "WatchlistError", code |-> error.code, message |-> error.message,
        details |-> error.details]
  ELSE [error |-> "InternalError", code |-> "INTERNAL_ERROR",
        message |-> "An unexpected error occurred",
        details |-> IF nodeEnv # "production" THEN Some(error.message) ELSE absent]

\* createErrorResponse(error) in a deployment with NODE_ENV nodeEnv
createErrorResponse(error, nodeEnv) ==
  IF error.kind = "WatchlistError"
  THEN [error |-> "WatchlistError", code |-> error.code, message |-> error.message,
        details |-> error.details]
  ELSE [error |-> "InternalError", code |-> "INTERNAL_ERROR",
        message |-> "An unexpected error occurred",
        details |-> IF nodeEnv = "development" THEN Some(error.message) ELSE absent]

\* what asyncHandler(fn) throws when fn throws error
asyncHandler(error, nodeEnv) ==
  IF error.kind = "WatchlistError" THEN error
  ELSE [kind |-> "WatchlistError", code |-> "INTERNAL_ERROR",
        message |-> "An unexpected error occurred",
        details |-> IF nodeEnv = "development" THEN Some(error) ELSE absent]

\* a call of createErrorResponse
CreateErrorResponse ==
  /\ AfterWrite
  /\ \E error \in FaultInputs, nodeEnv \in NodeEnvInputs :
       LET r == createErrorResponse(error, nodeEnv)
       IN last' = Call("createErrorResponse", undefined, [error |-> error, nodeEnv |-> nodeEnv],
                       "helper", r.code, Some(r))
  /\ UNCHANGED <<store, idCounter, now, rateLimitStore, proxyState, unpurged, held>>

\* a call of a function wrapped by asyncHandler that throws
AsyncHandler ==
  /\ AfterWrite
  /\ \E error \in FaultInputs, nodeEnv \in NodeEnvInputs :
       LET r == asyncHandler(error, nodeEnv)
       IN last' = Call("asyncHandler", undefined, [error |-> error, nodeEnv |-> nodeEnv],
                       "helper", r.code, Some(r))
  /\ UNCHANGED <<store, idCounter, now, rateLimitStore, proxyState, unpurged, held>>

NextHelpers ==
  \/ CreateWatchlist
  \/ ValidateStringParam
  \/ CreateErrorResponse
  \/ AsyncHandler

SpecHelpers == Init /\ [][NextHelpers]_vars

\* ------------------------------------------------------------------------
\* Rate limiting helpers
\* ------------------------------------------------------------------------
\* user ids and actions as the strings the key is built from
RateUserInputs == {<<"a">>, <<"a", ":", "b">>}
RateActionInputs == {<<"c">>, <<"b", ":", "c">>}

\* the limit and the window, in milliseconds, configured for an action
RateLimitOf(action) == IF action = <<"c">> THEN 1 ELSE 2
RateWindowOf(action) == IF action = <<"c">> THEN 1000 ELSE 1500

\* the amounts by which Date.now() advances between two calls
RateSteps == {250, 500}

\* `${userId}:${action}`
rateKey(userId, action) == userId \o <<":">> \o action

\* the window is over from its reset time on
windowExpired_atReset(record, time) == time >= record.resetTime

\* now > record.resetTime
windowExpired(record, time) == time > record.resetTime

\* Math.ceil(a / b) for b > 0
Ceil(a, b) == -((-a) \div b)

\* the record of a call after `record.count++` (part_000:198-206)
countCall(table, key, windowMs, time) ==
  LET fresh == key \notin DOMAIN table \/ windowExpired(table[key], time)
      record == IF fresh THEN [count |-> 0, resetTime |-> time + windowMs] ELSE table[key]
  IN [record EXCEPT !.count = @ + 1]

\* what the call does after counting: throw RATE_LIMITED or return (part_000:208-215)
outcomeOf(counted, limit, windowMs, time) ==
  IF counted.count > limit
  THEN [err |-> "RATE_LIMITED",
        ret |-> Some([limit |-> limit, windowMs |-> windowMs,
                      resetIn |-> Ceil(counted.resetTime - time, 1000)])]
  ELSE [err |-> "OK", ret |-> absent]

\* checkRateLimit(userId, action, limit, windowMs), and the same call on the
\* table that is never purged
checkRateLimit(userId, action, limit, windowMs) ==
  LET key == rateKey(userId, action)
      counted == countCall(rateLimitStore, key, windowMs, now)
      reference == countCall(unpurged.table, key, windowMs, now)
      args == [action |-> action, limit |-> limit, windowMs |-> windowMs]
  IN /\ counted.count <= MaxRateCount
     /\ reference.count <= MaxRateCount
     /\ rateLimitStore' = MapSet(rateLimitStore, key, counted)
     /\ unpurged' = [table |-> MapSet(unpurged.table, key, reference),
                     err |-> outcomeOf(reference, limit, windowMs, now).err,
                     ret |-> outcomeOf(reference, limit, windowMs, now).ret]
     /\ last' = Call("checkRateLimit", userId, args, "helper",
                     outcomeOf(counted, limit, windowMs, now).err,
                     outcomeOf(counted, limit, windowMs, now).ret)
     /\ UNCHANGED <<store, idCounter, now, proxyState, held>>

\* the purge deleting a record at its reset time already
purgeable_atReset(record, time) == time >= record.resetTime

\* `if (now > record.resetTime)` of the purge (part_000:222)
purgeable(record, time) == time > record.resetTime

\* the setInterval callback: expired records are deleted
cleanup ==
  /\ rateLimitStore' = [k \in {x \in DOMAIN rateLimitStore : ~purgeable(rateLimitStore[x], now)}
                          |-> rateLimitStore[k]]
  /\ last' = Call("cleanup", undefined, <<0, 0>>, "helper", "OK", absent)
  /\ UNCHANGED <<store, idCounter, now, proxyState, unpurged, held>>

CheckRateLimit ==
  \E userId \in RateUserInputs, action \in RateActionInputs :
    checkRateLimit(userId, action, RateLimitOf(action), RateWindowOf(action))

\* The timer fires at a phase of the clock that the calls do not determine.
Cleanup == cleanup

\* Date.now() advances between two calls
Advance ==
  \E d \in RateSteps :
    /\ now + d <= MaxRateTime
    /\ now' = now + d
    /\ UNCHANGED <<store, idCounter, rateLimitStore, last, proxyState, unpurged, held>>

NextRate ==
  \/ CheckRateLimit
  \/ Cleanup
  \/ Advance

SpecRate == Init /\ [][NextRate]_vars

\* ------------------------------------------------------------------------
\* The CoinGecko proxy singleton (coingecko-proxy.ts)
\* ------------------------------------------------------------------------
MaxProxies == 3       \* CoinGeckoMCPProxy instances constructed in a run
MaxCallers == 6       \* getCoinGeckoProxy() calls in a run
MaxDisconnects == 2   \* disconnect() calls that await a close at one time

null == 0

\* the instance right after `new CoinGeckoMCPProxy(...)` and the synchronous
\* part of connect(): transport and client are set, isConnected is false
connectingProxy == [isConnected |-> FALSE, client |-> TRUE, transport |-> TRUE]

isClientConnected(proxy) == proxies[proxy].isConnected

\* what a caller sees of the promise it was handed
settled(promise, state, value, table) ==
  [promise |-> promise, state |-> state, value |-> value,
   connected |-> value # null /\ table[value].isConnected]

awaiting(promise) == [promise |-> promise, state |-> "pending", value |-> null, connected |-> FALSE]

\* the promise a call returns, as its caller observes it
returned(promise) ==
  IF promises[promise].state = "pending"
  THEN awaiting(promise)
  ELSE settled(promise, promises[promise].state, promises[promise].value, proxies)

\* every caller awaiting `promise` learns its outcome
settleCallers(promise, state, value, table) ==
  [i \in 1..Len(callers) |->
     IF callers[i].promise = promise /\ callers[i].state = "pending"
     THEN settled(promise, state, value, table)
     ELSE callers[i]]

\* `if (!connectionPromise)`
noAttempt_always == TRUE
noAttempt == connectionPromise = null

\* getCoinGeckoProxy(): the connected singleton, or the attempt in flight, or
\* a new attempt.  The disconnect() of the old instance awaited by a new
\* attempt finds it not connected and returns at once.
getCoinGeckoProxy ==
  /\ Len(callers) < MaxCallers
  /\ IF coinGeckoProxy # null /\ isClientConnected(coinGeckoProxy)
     THEN /\ callers' = Append(callers, settled(null, "resolved", coinGeckoProxy, proxies))
          /\ UNCHANGED <<coinGeckoProxy, connectionPromise, proxies, promises>>
     ELSE IF noAttempt
     THEN /\ Len(proxies) < MaxProxies
          /\ proxies' = Append(proxies, connectingProxy)
          /\ coinGeckoProxy' = Len(proxies) + 1
          /\ promises' = Append(promises, [state |-> "pending", proxy |-> Len(proxies) + 1, value |-> null])
          /\ connectionPromise' = Len(promises) + 1
          /\ callers' = Append(callers, awaiting(Len(promises) + 1))
     ELSE /\ callers' = Append(callers, returned(connectionPromise))
          /\ UNCHANGED <<coinGeckoProxy, connectionPromise, proxies, promises>>
  /\ UNCHANGED <<store, idCounter, now, rateLimitStore, unpurged, held, disconnects, last>>

\* `await this.client.connect(this.transport)` completes: the instance is
\* connected and the attempt resolves to the value of the singleton variable
connectResolves(promise) ==
  LET proxy == promises[promise].proxy
      table == [proxies EXCEPT ![proxy].isConnected = TRUE]
  IN /\ promises[promise].state = "pending"
     /\ proxies' = table
     /\ promises' = [promises EXCEPT ![promise] = [@ EXCEPT !.state = "resolved", !.value = coinGeckoProxy]]
     /\ callers' = settleCallers(promise, "resolved", coinGeckoProxy, table)
     /\ UNCHANGED <<store, idCounter, now, rateLimitStore, unpurged, held, coinGeckoProxy, connectionPromise, disconnects, last>>

\* the catch of the attempt: `connectionPromise = null; throw error`
afterFailure_kept == connectionPromise
afterFailure == null

\* `await this.client.connect(this.transport)` throws
connectRejects(promise) ==
  /\ promises[promise].state = "pending"
  /\ promises' = [promises EXCEPT ![promise].state = "rejected"]
  /\ connectionPromise' = afterFailure
  /\ callers' = settleCallers(promise, "rejected", null, proxies)
  /\ UNCHANGED <<store, idCounter, now, rateLimitStore, unpurged, held, coinGeckoProxy, proxies, disconnects, last>>

RemoveAt(s, i) == SubSeq(s, 1, i - 1) \o SubSeq(s, i + 1, Len(s))

\* disconnect() up to its first await; `closing` says that
\* closeCoinGeckoProxy() awaits the call and then clears the singleton
disconnect(proxy, closing) ==
  IF ~proxies[proxy].isConnected
  THEN /\ coinGeckoProxy' = IF closing THEN null ELSE coinGeckoProxy
       /\ UNCHANGED <<proxies, disconnects>>
  ELSE IF proxies[proxy].client \/ proxies[proxy].transport
  THEN /\ Len(disconnects) < MaxDisconnects
       /\ disconnects' = Append(disconnects,
            [proxy |-> proxy, pc |-> IF proxies[proxy].client THEN "client" ELSE "transport",
             closing |-> closing])
       /\ UNCHANGED <<proxies, coinGeckoProxy>>
  ELSE /\ proxies' = [proxies EXCEPT ![proxy].isConnected = FALSE]
       /\ coinGeckoProxy' = IF closing THEN null ELSE coinGeckoProxy
       /\ UNCHANGED disconnects

\* a disconnect() call returns; closeCoinGeckoProxy() continues after it
disconnectReturns(i) ==
  /\ disconnects' = RemoveAt(disconnects, i)
  /\ coinGeckoProxy' = IF disconnects[i].closing THEN null ELSE coinGeckoProxy

\* `await this.client.close()` completes
clientClosed(i) ==
  LET proxy == disconnects[i].proxy
  IN /\ disconnects[i].pc = "client"
     /\ IF proxies[proxy].transport
        THEN /\ proxies' = [proxies EXCEPT ![proxy].client = FALSE]
             /\ disconnects' = [disconnects EXCEPT ![i].pc = "transport"]
             /\ UNCHANGED coinGeckoProxy
        ELSE /\ proxies' = [proxies EXCEPT ![proxy] = [@ EXCEPT !.client = FALSE, !.isConnected = FALSE]]
             /\ disconnectReturns(i)
     /\ UNCHANGED <<store, idCounter, now, rateLimitStore, unpurged, held, connectionPromise, promises, callers, last>>

\* `await this.transport.close()` completes
transportClosed(i) ==
  LET proxy == disconnects[i].proxy
  IN /\ disconnects[i].pc = "transport"
     /\ proxies' = [proxies EXCEPT ![proxy] = [@ EXCEPT !.transport = FALSE, !.isConnected = FALSE]]
     /\ disconnectReturns(i)
     /\ UNCHANGED <<store, idCounter, now, rateLimitStore, unpurged, held, connectionPromise, promises, callers, last>>

\* a close() throws: disconnect() logs the error and returns
closeThrows(i) ==
  /\ disconnectReturns(i)
  /\ UNCHANGED <<store, idCounter, now, rateLimitStore, unpurged, held, connectionPromise, proxies, promises, callers, last>>

closeCoinGeckoProxy ==
  /\ connectionPromise' = null
  /\ IF coinGeckoProxy # null
     THEN disconnect(coinGeckoProxy, TRUE)
     ELSE UNCHANGED <<coinGeckoProxy, proxies, disconnects>>
  /\ UNCHANGED <<store, idCounter, now, rateLimitStore, unpurged, held, promises, callers, last>>

GetCoinGeckoProxy == getCoinGeckoProxy

ConnectResolves == \E promise \in 1..Len(promises) : connectResolves(promise)

ConnectRejects == \E promise \in 1..Len(promises) : connectRejects(promise)

CloseCoinGeckoProxy == closeCoinGeckoProxy

\* a holder of the singleton calls disconnect() on it
Disconnect ==
  /\ coinGeckoProxy # null
  /\ disconnect(coinGeckoProxy, FALSE)
  /\ UNCHANGED <<store, idCounter, now, rateLimitStore, unpurged, held, connectionPromise, promises, callers, last>>

ClientClosed == \E i \in 1..Len(disconnects) : clientClosed(i)

TransportClosed == \E i \in 1..Len(disconnects) : transportClosed(i)

CloseThrows == \E i \in 1..Len(disconnects) : closeThrows(i)

\* closeCoinGeckoProxy() is never called and nobody disconnects the singleton
NextConnect ==
  \/ GetCoinGeckoProxy
  \/ ConnectResolves
  \/ ConnectRejects

SpecConnect == Init /\ [][NextConnect]_vars

NextProxy ==
  \/ GetCoinGeckoProxy
  \/ ConnectResolves
  \/ ConnectRejects
  \/ CloseCoinGeckoProxy
  \/ Disconnect
  \/ ClientClosed
  \/ TransportClosed
  \/ CloseThrows

SpecProxy == Init /\ [][NextProxy]_vars

\* ------------------------------------------------------------------------
\* Renaming: service.updateWatchlist with a name in the patch
\* ------------------------------------------------------------------------
RenameWatchlist ==
  AfterWrite /\ \E w \in WatchlistIdInputs, u \in Requesters, n \in NameInputs :
    updateWatchlist(w, u, [NoPatch EXCEPT !.name = n])

NextNames ==
  \/ CreateWatchlist
  \/ RenameWatchlist
  \/ GetWatchlist

SpecNames == Init /\ [][NextNames]_vars

\* ------------------------------------------------------------------------
\* Reading the public directory page after page
\* ------------------------------------------------------------------------
MaxPages == 46    \* pages read in a run

PageLimitInputs == {1, 2, 20, 44, 45, 100}

\* getPublicWatchlists({ page, limit }) on a directory whose filtered list has
\* T entries; the pages read so far are kept in page order
readPage(T, page, limit, pages) ==
  /\ last' = Call("readPage", undefined, [total |-> T, page |-> page, limit |-> limit], "service", "OK",
                  Some(Append(pages, paginatedResponse(ListOf(T), Some(page), Some(limit)).data)))
  /\ UNCHANGED <<store, idCounter, now, rateLimitStore, proxyState, unpurged, held>>

FirstPage ==
  \E T \in TotalInputs, limit \in PageLimitInputs :
    /\ last.op = "init"
    /\ readPage(T, 1, limit, <<>>)

NextPage ==
  /\ last.op = "readPage"
  /\ last.id.page < MaxPages
  /\ readPage(last.id.total, last.id.page + 1, last.id.limit, Val(last.ret))

NextPages ==
  \/ FirstPage
  \/ NextPage

SpecPages == Init /\ [][NextPages]_vars

\* ------------------------------------------------------------------------
\* Editing items: service.updateCoinInWatchlist with a price and notes
\* ------------------------------------------------------------------------
EditNotesInputs == {absent, Some(<<" ", "n">>), Some(<<" ">>)}

EditCoin ==
  AfterWrite /\ \E w \in WatchlistIdInputs, u \in Requesters, c \in CoinIdInputs,
                   t \in TargetPriceInputs, n \in EditNotesInputs :
    updateCoinInWatchlist(w, u, c, t, n)

NextItems ==
  \/ CreateWatchlist
  \/ AddCoinToWatchlist
  \/ EditCoin

SpecItems == Init /\ [][NextItems]_vars

\* ------------------------------------------------------------------------
\* Identifiers across reset()
\* ------------------------------------------------------------------------
\* a caller keeps the id of the watchlist that createWatchlist has just returned
Hold ==
  /\ last.op = "createWatchlist" /\ last.err = "OK"
  /\ held = absent
  /\ held' = Some(last.id)
  /\ UNCHANGED <<store, idCounter, now, rateLimitStore, unpurged, proxyState, last>>

NextReset ==
  \/ CreateWatchlist
  \/ DeleteWatchlist
  \/ Hold
  \/ Reset
  \/ ClockTick

SpecReset == Init /\ [][NextReset]_vars

\* ------------------------------------------------------------------------
\* Properties
\* ------------------------------------------------------------------------
NoDup(s) == \A i, j \in 1..Len(s) : i # j => s[i] # s[j]

PublicIds == Range(publicWatchlists)

\* every coin of every item list
AllCoins == UNION {Range(watchlistCoins[k]) : k \in DOMAIN watchlistCoins}

\* the operations of the store that name a watchlist id, and those that name a note id
WatchlistIdOps == {"getWatchlist", "updateWatchlist", "deleteWatchlist", "addCoinToWatchlist",
                   "removeCoinFromWatchlist", "updateCoinInWatchlist", "addNote", "getWatchlistNotes"}
NoteIdOps == {"updateNote", "deleteNote"}

\* the step is a call (calls take no time; SpecClock also lets the clock advance)
CallStep == now' = now

\* C1: the public index holds an id iff a watchlist with that id exists and
\* its isPublic flag is true.
C1_PublicIndexIffPublic ==
  \A id \in PublicIds \cup DOMAIN watchlists :
    id \in PublicIds <=> (id \in DOMAIN watchlists /\ watchlists[id].isPublic)

\* C1 witness: an update has just made a watchlist private and taken it out of
\* the index, while another watchlist stays listed.
C1_Witness ==
  /\ last.op = "updateWatchlist" /\ last.err = "OK"
  /\ ~watchlists[last.id].isPublic
  /\ last.id \notin PublicIds
  /\ PublicIds # {}

\* C2: every item list key, every item and every note refers to a watchlist
\* that exists; after a successful deleteWatchlist(w) no item and no note
\* with watchlist id w remains.
C2_NoOrphans ==
  /\ \A k \in DOMAIN watchlistCoins : k \in DOMAIN watchlists
  /\ \A c \in AllCoins : c.watchlistId \in DOMAIN watchlists
  /\ \A n \in DOMAIN notes : notes[n].watchlistId \in DOMAIN watchlists
  /\ (last.op = "deleteWatchlist" /\ last.err = "OK") =>
       /\ last.id \notin DOMAIN watchlistCoins
       /\ \A c \in AllCoins : c.watchlistId # last.id
       /\ \A n \in DOMAIN notes : notes[n].watchlistId # last.id

\* C2 witness: a watchlist has just been deleted while a note of another
\* watchlist is in the store.
C2_Witness ==
  /\ last.op = "deleteWatchlist" /\ last.err = "OK"
  /\ DOMAIN notes # {}

\* C3 (as claimed): after a successful deleteWatchlist(w) by its owner, a
\* user, the id w is in none of the owner index, the public index and the
\* item-id index.
C3_DeletedIdInNoIndex ==
  (last.op = "deleteWatchlist" /\ last.err = "OK" /\ last.userId \in Users) =>
    /\ \A u \in DOMAIN userWatchlists : last.id \notin Range(userWatchlists[u])
    /\ last.id \notin PublicIds
    /\ \A c \in DOMAIN coinWatchlists : last.id \notin Range(coinWatchlists[c])

\* C4 (as claimed): for every coin id c, coinWatchlists[c] holds exactly the
\* ids of the existing watchlists with an item of coin id c, each once
\* (stated for the stores that only identified users have written to).
C4_CoinIndexExact ==
  (DOMAIN userWatchlists \subseteq Users) =>
    \A c \in DOMAIN coinWatchlists \cup {x.coinId : x \in AllCoins} :
      /\ Range(MapGet(coinWatchlists, c, <<>>)) =
           {w \in DOMAIN watchlists : hasCoin(MapGet(watchlistCoins, w, <<>>), c)}
      /\ NoDup(MapGet(coinWatchlists, c, <<>>))

\* C5: the owner index maps each user id to exactly the ids of the existing
\* watchlists of that owner, each once; so every existing watchlist is under
\* exactly one owner.
C5_OwnerIndexExact ==
  /\ \A u \in DOMAIN userWatchlists \cup {watchlists[w].userId : w \in DOMAIN watchlists} :
       /\ Range(MapGet(userWatchlists, u, <<>>)) = {w \in DOMAIN watchlists : watchlists[w].userId = u}
       /\ NoDup(MapGet(userWatchlists, u, <<>>))
  /\ \A w \in DOMAIN watchlists :
       Cardinality({u \in DOMAIN userWatchlists : w \in Range(userWatchlists[u])}) = 1

\* C5 witness: an owner of two watchlists has just deleted one of them, and
\* another owner has a watchlist too.
C5_Witness ==
  /\ last.op = "deleteWatchlist" /\ last.err = "OK"
  /\ Len(userWatchlists[last.userId]) = 1
  /\ \E u \in DOMAIN userWatchlists : u # last.userId /\ Len(userWatchlists[u]) = 1

\* C6: no watchlist holds two items with the same coinId.
C6_NoDuplicateCoin ==
  \A k \in DOMAIN watchlistCoins :
    \A i, j \in 1..Len(watchlistCoins[k]) :
      i # j => watchlistCoins[k][i].coinId # watchlistCoins[k][j].coinId

\* C6 witness: the store has just refused a coin id the watchlist holds, and
\* the watchlist holds two items.
C6_Witness ==
  /\ last.op = "addCoinToWatchlist" /\ last.stage = "store" /\ last.err = "VALIDATION_ERROR"
  /\ Len(watchlistCoins[last.id]) = 2

\* C7: on an existing watchlist, a store write by a requester who is not its
\* owner fails with FORBIDDEN and leaves the whole store as it was, whether
\* the watchlist is public or private.
C7_NonOwnerWriteForbidden ==
  [][(/\ CallStep
      /\ last'.op \in {"updateWatchlist", "deleteWatchlist", "addCoinToWatchlist",
                       "removeCoinFromWatchlist", "updateCoinInWatchlist"}
      /\ last'.stage = "store"
      /\ last'.id \in DOMAIN watchlists
      /\ watchlists[last'.id].userId # last'.userId)
     => (last'.err = "FORBIDDEN" /\ UNCHANGED store)]_vars

\* C7 witness: a user who is not the owner has been refused the deletion of a
\* public watchlist.
C7_Witness ==
  /\ last.op = "deleteWatchlist" /\ last.err = "FORBIDDEN"
  /\ last.userId \in Users
  /\ watchlists[last.id].isPublic
  /\ watchlists[last.id].userId \in Users

\* C8 (as claimed): getWatchlist on an existing private watchlist without a
\* requester id fails with FORBIDDEN and returns nothing.
C8_AbsentRequesterForbidden ==
  (/\ last.op = "getWatchlist"
   /\ last.userId = undefined
   /\ last.id \in DOMAIN watchlists
   /\ ~watchlists[last.id].isPublic
   /\ watchlists[last.id].userId \in Users)
  => (last.err = "FORBIDDEN" /\ last.ret = absent)

\* C9: for an existing watchlist and a present requester, getWatchlist
\* succeeds when the requester is the owner or the watchlist is public, and
\* fails with FORBIDDEN exactly when it is private and the requester is not
\* the owner.
C9_ReadAccess ==
  (last.op = "getWatchlist" /\ last.userId \in Users /\ last.id \in DOMAIN watchlists) =>
    LET w == watchlists[last.id]
        allowed == w.userId = last.userId \/ w.isPublic
    IN /\ allowed => (last.err = "OK" /\ last.ret = Some(enrichWatchlistWithCoins(last.id)))
       /\ ~allowed => (last.err = "FORBIDDEN" /\ last.ret = absent)

\* C9 witness: a user has read a public watchlist of another owner.
C9_Witness ==
  /\ last.op = "getWatchlist" /\ last.err = "OK"
  /\ last.userId \in Users
  /\ watchlists[last.id].userId # last.userId
  /\ watchlists[last.id].isPublic

\* C10: a store operation naming a watchlist id or a note id that does not
\* exist fails with NOT_FOUND whoever asks; FORBIDDEN is returned only for
\* entities that exist.
C10_ExistenceBeforeAccess ==
  [][(CallStep /\ last'.stage = "store") =>
       /\ (last'.op \in WatchlistIdOps /\ last'.id \notin DOMAIN watchlists) => last'.err = "NOT_FOUND"
       /\ (last'.op \in NoteIdOps /\ last'.id \notin DOMAIN notes) => last'.err = "NOT_FOUND"
       /\ (last'.op \in WatchlistIdOps /\ last'.err = "FORBIDDEN") => last'.id \in DOMAIN watchlists
       /\ (last'.op \in NoteIdOps /\ last'.err = "FORBIDDEN") =>
            (last'.id \in DOMAIN notes /\ notes[last'.id].watchlistId \in DOMAIN watchlists)]_vars

\* C10 witness: deleteNote of an id that is not a note has failed with
\* NOT_FOUND for a requester without identity, in a store that holds a note.
C10_Witness ==
  /\ last.op = "deleteNote" /\ last.err = "NOT_FOUND"
  /\ last.userId = undefined
  /\ last.id \notin DOMAIN notes
  /\ DOMAIN notes # {}

\* C11: a store call of addNote, updateNote or deleteNote by a requester who
\* is not the owner of the parent watchlist fails with FORBIDDEN and leaves
\* the store as it was, also when the parent is public; these operations
\* change the notes only for the owner of the parent.
C11_NoteWriteOwnerOnly ==
  [][(CallStep /\ last'.stage = "store") =>
       /\ (/\ last'.op = "addNote"
           /\ last'.id \in DOMAIN watchlists
           /\ watchlists[last'.id].userId # last'.userId)
          => (last'.err = "FORBIDDEN" /\ UNCHANGED store)
       /\ (/\ last'.op \in NoteIdOps
           /\ last'.id \in DOMAIN notes
           /\ notes[last'.id].watchlistId \in DOMAIN watchlists
           /\ watchlists[notes[last'.id].watchlistId].userId # last'.userId)
          => (last'.err = "FORBIDDEN" /\ UNCHANGED store)
       /\ (last'.op = "addNote" /\ notes' # notes)
          => watchlists[last'.id].userId = last'.userId
       /\ (last'.op \in NoteIdOps /\ notes' # notes)
          => watchlists[notes[last'.id].watchlistId].userId = last'.userId]_vars

\* C11 witness: a user has been refused the update of a note of a public
\* watchlist of another user.
C11_Witness ==
  /\ last.op = "updateNote" /\ last.err = "FORBIDDEN"
  /\ last.userId \in Users
  /\ last.id \in DOMAIN notes
  /\ watchlists[notes[last.id].watchlistId].isPublic
  /\ watchlists[notes[last.id].watchlistId].userId \in Users

\* the notes that getWatchlist and getWatchlistNotes hand to a requester
NotesFromGetWatchlist(watchlistId, userId) ==
  IF getWatchlistErr(watchlistId, userId) = "OK" THEN enrichWatchlistWithCoins(watchlistId).notes ELSE {}

NotesFromGetWatchlistNotes(watchlistId, userId) ==
  IF getWatchlistNotesErr(watchlistId, userId) = "OK" THEN notesFilter(watchlistId, absent) ELSE {}

\* C12 (as claimed): for a private watchlist of a user and a requester who is
\* not its owner (another user or no requester id), neither getWatchlist nor
\* getWatchlistNotes returns a note of it; and the two operations allow the
\* same requesters.
C12_PrivateNotesHidden ==
  \A w \in DOMAIN watchlists : \A u \in Requesters :
    /\ (~watchlists[w].isPublic /\ watchlists[w].userId \in Users /\ u # watchlists[w].userId) =>
         /\ NotesFromGetWatchlist(w, u) = {}
         /\ NotesFromGetWatchlistNotes(w, u) = {}
    /\ (getWatchlistErr(w, u) = "OK") <=> (getWatchlistNotesErr(w, u) = "OK")

\* C13: when the owner adds a coin id that, trimmed, the watchlist already
\* holds, addCoinToWatchlist fails with VALIDATION_ERROR and the store is as
\* it was; when the watchlist does not hold it, the call succeeds, appends
\* the item and registers the watchlist in the item-id index.
C13_DuplicateCoinRejected ==
  [][(last'.op = "addCoinToWatchlist" /\ last'.id \in DOMAIN watchlists) =>
      \A c \in CoinIdInputs :
       (/\ Trim(c) # <<>>
        /\ addCoinToWatchlist(last'.id, watchlists[last'.id].userId, c, absent, absent)) =>
         LET w == last'.id
             coins == MapGet(watchlistCoins, w, <<>>)
             coins2 == MapGet(watchlistCoins', w, <<>>)
         IN IF \E i \in 1..Len(coins) : coins[i].coinId = Trim(c)
            THEN /\ last'.err = "VALIDATION_ERROR"
                 /\ UNCHANGED store
            ELSE /\ last'.err = "OK"
                 /\ Len(coins2) = Len(coins) + 1
                 /\ SubSeq(coins2, 1, Len(coins)) = coins
                 /\ coins2[Len(coins2)].coinId = Trim(c)
                 /\ w \in Range(MapGet(coinWatchlists', Trim(c), <<>>))]_vars

\* C13 witness: the owner, a user, has been refused a coin id that the
\* watchlist holds as its only item.
C13_Witness ==
  /\ last.op = "addCoinToWatchlist" /\ last.stage = "store" /\ last.err = "VALIDATION_ERROR"
  /\ last.userId \in Users
  /\ watchlists[last.id].userId = last.userId
  /\ Len(watchlistCoins[last.id]) = 1

\* C14: a call that fails, with NOT_FOUND, FORBIDDEN or VALIDATION_ERROR,
\* leaves the primary records and the three indexes as they were, and
\* returns nothing.
C14_FailureChangesNothing ==
  [][(CallStep /\ last'.err # "OK") =>
       /\ last'.err \in {"NOT_FOUND", "FORBIDDEN", "VALIDATION_ERROR"}
       /\ UNCHANGED <<watchlists, watchlistCoins, notes>>
       /\ UNCHANGED <<userWatchlists, publicWatchlists, coinWatchlists>>
       /\ last'.ret = absent]_vars

\* C14 witness: the owner has asked to remove a coin id that the watchlist
\* does not hold, while it holds another one and is listed as public.
C14_Witness ==
  /\ last.op = "removeCoinFromWatchlist" /\ last.err = "NOT_FOUND"
  /\ last.id \in DOMAIN watchlists
  /\ watchlists[last.id].userId = last.userId
  /\ Len(watchlistCoins[last.id]) = 1
  /\ last.id \in PublicIds

\* C15: for page >= 1, limit in 1..100 and a filtered list of T entries, the
\* page returned holds exactly the entries at positions (page-1)*limit up to
\* (page-1)*limit+limit of the list, min(limit, max(0, T-(page-1)*limit)) of
\* them; hasNext iff page*limit < T; hasPrevious iff page > 1.
C15_PageIsSlice ==
  (/\ last.op = "paginate"
   /\ IsSome(last.id.page) /\ Val(last.id.page) >= 1
   /\ IsSome(last.id.limit) /\ Val(last.id.limit) \in 1..100) =>
    LET T == last.id.total
        page == Val(last.id.page)
        limit == Val(last.id.limit)
        n == Min(limit, Max(0, T - (page - 1) * limit))
        r == Val(last.ret)
    IN /\ r.data = [i \in 1..n |-> ListOf(T)[(page - 1) * limit + i]]
       /\ r.total = T
       /\ r.hasNext <=> page * limit < T
       /\ r.hasPrevious <=> page > 1

\* C15 witness: 45 entries, limit 20: page 3 holds the last 5 entries, with
\* hasPrevious and without hasNext.
C15_Witness ==
  /\ last.op = "paginate"
  /\ last.id = [total |-> 45, page |-> Some(3), limit |-> Some(20)]
  /\ Val(last.ret).data = <<41, 42, 43, 44, 45>>
  /\ ~Val(last.ret).hasNext
  /\ Val(last.ret).hasPrevious

\* C16 (as claimed): the page returned is 1 when page is absent and
\* max(1, page) otherwise; the limit returned is 20 when limit is absent and
\* min(100, max(1, limit)) otherwise, for every integer, 0 and negatives too.
C16_PagingNormalized ==
  (last.op = "paginate") =>
    LET r == Val(last.ret)
    IN /\ r.page = IF IsSome(last.id.page) THEN Max(1, Val(last.id.page)) ELSE 1
       /\ r.limit = IF IsSome(last.id.limit) THEN Min(100, Max(1, Val(last.id.limit))) ELSE 20

\* the ids of the entries of a page
IdsOf(data) == {data[i].watchlist.id : i \in 1..Len(data)}

\* C17: getPublicWatchlists returns only watchlists that exist and are
\* public, and its total is the number of existing public watchlists that
\* pass the search and tag filters, whatever page and limit are asked.
C17_OnlyPublicAndTotal ==
  (last.op = "getPublicWatchlists") =>
    LET r == Val(last.ret)
        search == OptTrim(last.id.search)
        tags == normalizeTags(last.id.tags)
    IN /\ \A i \in 1..Len(r.data) :
            /\ r.data[i].watchlist.id \in DOMAIN watchlists
            /\ r.data[i].watchlist = watchlists[r.data[i].watchlist.id]
            /\ r.data[i].watchlist.isPublic
       /\ r.total = Cardinality({w \in DOMAIN watchlists :
                                  /\ watchlists[w].isPublic
                                  /\ matchesSearch(watchlists[w], search)
                                  /\ matchesTags(watchlists[w], tags)})

\* C17 witness: with two public watchlists and a private one in the store,
\* page 2 of limit 1 holds one entry and the total is 2.
C17_Witness ==
  /\ last.op = "getPublicWatchlists"
  /\ last.id.page = Some(2) /\ last.id.limit = Some(1)
  /\ Val(last.ret).total = 2
  /\ Len(Val(last.ret).data) = 1
  /\ \E w \in DOMAIN watchlists : ~watchlists[w].isPublic

\* the selection the directory is to make, stated on the stored watchlist w
\* and the search and tags of the request
Selected(w, search, tags) ==
  LET term == IF IsSome(search) THEN ToLowerCase(Trim(Val(search))) ELSE <<>>
      wanted == IF IsSome(tags) THEN {Trim(Val(tags)[i]) : i \in 1..Len(Val(tags))} \ {<<>>} ELSE {}
  IN /\ w.isPublic
     /\ \/ term = <<>>
        \/ Includes(ToLowerCase(w.name), term)
        \/ (IsSome(w.description) /\ Includes(ToLowerCase(Val(w.description)), term))
     /\ (wanted = {} \/ wanted \cap Range(w.tags) # {})

\* C18: getPublicWatchlists selects a public watchlist iff no search is given
\* or the lower-cased search is a substring of its lower-cased name or
\* description, and no tags are given or it has one of them; every entry
\* returned carries the current items of its watchlist.
C18_SelectionByFilters ==
  (last.op = "getPublicWatchlists") =>
    LET r == Val(last.ret)
        selected == {w \in DOMAIN watchlists : Selected(watchlists[w], last.id.search, last.id.tags)}
    IN /\ IdsOf(r.data) \subseteq selected
       /\ r.total = Cardinality(selected)
       /\ (last.id.page = absent /\ last.id.limit = absent) =>
            (IdsOf(r.data) = selected /\ Len(r.data) = Cardinality(selected))
       /\ \A i \in 1..Len(r.data) :
            r.data[i].coins = watchlistCoins[r.data[i].watchlist.id]

\* C18 witness: the store holds one watchlist, public, named "A", with one
\* item; the search "a" returns exactly it, with its item and total 1.
C18_Witness ==
  /\ last.op = "getPublicWatchlists"
  /\ last.id.search = Some(<<"a">>) /\ last.id.tags = absent
  /\ Cardinality(DOMAIN watchlists) = 1
  /\ \A w \in DOMAIN watchlists : watchlists[w].name = <<"A">> /\ watchlists[w].description = absent
  /\ Val(last.ret).total = 1
  /\ Len(Val(last.ret).data) = 1
  /\ Len(Val(last.ret).data[1].coins) = 1

\* C19: a successful updateWatchlist changes, of the watchlist, only the
\* fields supplied among name, description, isPublic and tags, and
\* updatedAt; its id, owner and createdAt, the items, the notes, the owner
\* index, the item-id index and the other watchlists stay, and the public
\* index stays unless isPublic was supplied.
C19_UpdateFrame ==
  [][(last'.op = "updateWatchlist" /\ last'.err = "OK") =>
      \A p \in ListingUpdateInputs :
       updateWatchlist(last'.id, last'.userId, p) =>
         LET w == last'.id
             old == watchlists[w]
             new == watchlists'[w]
         IN /\ DOMAIN watchlists' = DOMAIN watchlists
            /\ \A x \in DOMAIN watchlists \ {w} : watchlists'[x] = watchlists[x]
            /\ new.id = old.id /\ new.userId = old.userId /\ new.createdAt = old.createdAt
            /\ new.name = IF IsSome(p.name) THEN Trim(Val(p.name)) ELSE old.name
            /\ new.description = IF IsSome(p.description) THEN Some(Trim(Val(p.description))) ELSE old.description
            /\ new.isPublic = IF IsSome(p.isPublic) THEN Val(p.isPublic) ELSE old.isPublic
            /\ new.tags = IF IsSome(p.tags) THEN Val(p.tags) ELSE old.tags
            /\ UNCHANGED <<watchlistCoins, notes, userWatchlists, coinWatchlists>>
            /\ ~IsSome(p.isPublic) => UNCHANGED publicWatchlists]_vars

\* C19 witness: a name has just been changed on a public watchlist that has
\* a description, a tag and an item, next to another watchlist.
C19_Witness ==
  /\ last.op = "updateWatchlist" /\ last.err = "OK"
  /\ watchlists[last.id].name = <<"b">>
  /\ watchlists[last.id].description = Some(<<"a">>)
  /\ watchlists[last.id].tags = << <<"t">> >>
  /\ last.id \in PublicIds
  /\ Len(watchlistCoins[last.id]) = 1
  /\ Cardinality(DOMAIN watchlists) = 2

\* the ids in use: of the watchlists, the items and the notes
UsedIds == DOMAIN watchlists \cup DOMAIN notes \cup {c.id : c \in AllCoins}

\* C20: createWatchlist with a name that is not blank succeeds; the new
\* watchlist has an id that was not in use, the caller as owner, no items,
\* no notes, createdAt equal to updatedAt, and isPublic true only if true was
\* asked; its id is appended to the owner's index entry, and to the public
\* index only when public; no other watchlist changes.
C20_CreateWatchlist ==
  [][(last'.op = "createWatchlist") =>
      \A u \in Requesters : \A n \in NameInputs : \A p \in IsPublicInputs :
        (/\ IsSome(n) /\ Trim(Val(n)) # <<>>
         /\ createWatchlist(u, n, absent, p, absent)) =>
          LET id == last'.id
              w == watchlists'[id]
          IN /\ last'.err = "OK"
             /\ id \notin UsedIds
             /\ DOMAIN watchlists' = DOMAIN watchlists \cup {id}
             /\ \A x \in DOMAIN watchlists : watchlists'[x] = watchlists[x]
             /\ w.id = id /\ w.userId = u /\ w.name = Trim(Val(n))
             /\ w.createdAt = w.updatedAt
             /\ w.isPublic = (p = Some(TRUE))
             /\ watchlistCoins' = MapSet(watchlistCoins, id, <<>>)
             /\ notes' = notes
             /\ \A k \in DOMAIN notes : notes[k].watchlistId # id
             /\ userWatchlists' = MapSet(userWatchlists, u, Append(MapGet(userWatchlists, u, <<>>), id))
             /\ publicWatchlists' = IF p = Some(TRUE) THEN Append(publicWatchlists, id) ELSE publicWatchlists
             /\ UNCHANGED coinWatchlists]_vars

\* C20 witness: a user has just created a public watchlist next to a
\* watchlist of another user that holds an item.
C20_Witness ==
  /\ last.op = "createWatchlist" /\ last.err = "OK"
  /\ last.userId \in Users
  /\ last.id \in PublicIds
  /\ \E x \in DOMAIN watchlists :
       /\ watchlists[x].userId \in Users \ {last.userId}
       /\ Len(watchlistCoins[x]) = 1

\* C21: removeCoinFromWatchlist by the owner fails with NOT_FOUND and leaves
\* the store as it was when the watchlist holds no item with that coin id;
\* otherwise it removes exactly that item and the watchlist's id from that
\* coin's index entry, and the other items of the watchlist, the items of
\* other watchlists, the index entries of other coin ids and the other ids
\* in that entry stay as they were.
C21_RemoveCoinFrame ==
  [][(last'.op = "removeCoinFromWatchlist" /\ last'.id \in DOMAIN watchlists) =>
      \A c \in CoinIdInputs :
       removeCoinFromWatchlist(last'.id, watchlists[last'.id].userId, c) =>
         LET w == last'.id
             coins == MapGet(watchlistCoins, w, <<>>)
             entry == MapGet(coinWatchlists, Trim(c), <<>>)
         IN IF ~\E i \in 1..Len(coins) : coins[i].coinId = Trim(c)
            THEN /\ last'.err = "NOT_FOUND"
                 /\ UNCHANGED store
            ELSE /\ last'.err = "OK"
                 /\ Len(watchlistCoins'[w]) = Len(coins) - 1
                 /\ watchlistCoins'[w] = SelectSeq(coins, LAMBDA x : x.coinId # Trim(c))
                 /\ DOMAIN watchlistCoins' = DOMAIN watchlistCoins
                 /\ \A k \in DOMAIN watchlistCoins \ {w} : watchlistCoins'[k] = watchlistCoins[k]
                 /\ coinWatchlists'[Trim(c)] = SelectSeq(entry, LAMBDA id : id # w)
                 /\ \A k \in DOMAIN coinWatchlists \ {Trim(c)} :
                      k \in DOMAIN coinWatchlists' /\ coinWatchlists'[k] = coinWatchlists[k]
                 /\ DOMAIN coinWatchlists' = DOMAIN coinWatchlists \cup {Trim(c)}
                 /\ UNCHANGED <<watchlists, notes, userWatchlists, publicWatchlists>>]_vars

\* C21 witness: the owner, a user, has removed one of two items; the other
\* item is still held and still indexed under its own coin id.
C21_Witness ==
  /\ last.op = "removeCoinFromWatchlist" /\ last.err = "OK"
  /\ last.userId \in Users
  /\ Len(watchlistCoins[last.id]) = 1
  /\ \E c \in DOMAIN coinWatchlists : coinWatchlists[c] = <<>>
  /\ \E c \in DOMAIN coinWatchlists : last.id \in Range(coinWatchlists[c])

\* C22: the record getStats returns has watchlistsCount equal to the number
\* of existing watchlists, coinsCount equal to the number of items over all
\* watchlists, notesCount equal to the number of notes and
\* publicWatchlistsCount equal to the number of existing watchlists whose
\* isPublic is true.
C22_StatsCounts ==
  last.op = "getStats" =>
    LET r == Val(last.ret)
    IN /\ r.watchlistsCount = Cardinality(DOMAIN watchlists)
       /\ r.coinsCount = Cardinality(AllCoins)
       /\ r.notesCount = Cardinality(DOMAIN notes)
       /\ r.publicWatchlistsCount = Cardinality({w \in DOMAIN watchlists : watchlists[w].isPublic})

\* C22 witness: getStats has reported one public watchlist with two items.
C22_Witness ==
  /\ last.op = "getStats"
  /\ Val(last.ret).watchlistsCount = 1
  /\ Val(last.ret).coinsCount = 2
  /\ Val(last.ret).publicWatchlistsCount = 1

\* C23: usersCount, as getStats returns it, is the number of distinct owners
\* of the watchlists that exist; an owner all of whose watchlists have been
\* deleted is not counted. Stated for stores written by identified users.
C23_UsersCountIsOwners ==
  (/\ last.op = "getStats"
   /\ DOMAIN userWatchlists \subseteq Users
   /\ \A w \in DOMAIN watchlists : watchlists[w].userId \in Users) =>
    Val(last.ret).usersCount = Cardinality({watchlists[w].userId : w \in DOMAIN watchlists})

\* C24: after reset(), from whatever state it was called in, the store is
\* the one the constructor leaves: no watchlists, items or notes, the three
\* indexes empty, the id counter at 1, every count of getStats 0, and a
\* lookup of any watchlist or note id that existed before fails with
\* NOT_FOUND for every requester.
C24_ResetRestoresInit ==
  [][(last'.op = "reset") =>
       /\ watchlists' = EmptyMap /\ watchlistCoins' = EmptyMap /\ notes' = EmptyMap
       /\ userWatchlists' = EmptyMap /\ publicWatchlists' = <<>> /\ coinWatchlists' = EmptyMap
       /\ idCounter' = 1
       /\ stats' = [watchlistsCount |-> 0, coinsCount |-> 0, notesCount |-> 0,
                    publicWatchlistsCount |-> 0, usersCount |-> 0]
       /\ \A u \in Requesters :
            /\ \A w \in DOMAIN watchlists :
                 /\ (getWatchlistErr(w, u))' = "NOT_FOUND"
                 /\ (writeWatchlistErr(w, u))' = "NOT_FOUND"
                 /\ (getWatchlistNotesErr(w, u))' = "NOT_FOUND"
            /\ \A n \in DOMAIN notes : (noteGateErr(n, u))' = "NOT_FOUND"]_vars

\* C24 witness: reset has run and the store is empty with the counter at 1.
C24_Witness ==
  /\ last.op = "reset"
  /\ store = <<EmptyMap, EmptyMap, EmptyMap, EmptyMap, <<>>, EmptyMap>>
  /\ idCounter = 1

\* C25: between two resets every id issued differs from every id issued
\* before it, whatever the clock does as long as it does not go back. The
\* ids issued since the last reset are those whose counter part is below
\* idCounter: a step other than reset never lowers the counter, an id that
\* appears in a step carries the counter's value in that step and moves the
\* counter past it, and every id in use carries a lower value; so an id that
\* appears equals no id in use and no id of a deleted entity. No two
\* entities share an id.
C25_FreshIds ==
  [][(last'.op # "reset") =>
       /\ idCounter' \in {idCounter, idCounter + 1}
       /\ \A id \in UsedIds : id[2] < idCounter
       /\ \A id \in UsedIds' \ UsedIds :
            /\ id = <<now, idCounter>>
            /\ idCounter' = idCounter + 1
       /\ idCounter' = idCounter + 1 => Cardinality(UsedIds' \ UsedIds) = 1
       /\ (DOMAIN watchlists)' \cap (DOMAIN notes)' = {}
       /\ \A c \in AllCoins' : c.id \notin (DOMAIN watchlists)' \cup (DOMAIN notes)'
       /\ \A c, d \in AllCoins' : c.id = d.id => c = d
       /\ \A w \in (DOMAIN watchlists)' : watchlists'[w].id = w
       /\ \A n \in (DOMAIN notes)' : notes'[n].id = n]_vars

\* C25 witness: three ids have been issued, the clock has advanced between
\* them, one of the entities has been deleted, and the last id went to an
\* item.
C25_Witness ==
  /\ last.op = "addCoinToWatchlist" /\ last.err = "OK"
  /\ idCounter = MaxIdCounter + 1
  /\ now = MaxTime
  /\ Cardinality(UsedIds) = 2
  /\ \E id \in UsedIds : id[1] = 0

\* a string of whitespace only (the empty string included)
Blank(v) == \A i \in 1..Len(v) : v[i] = " "

\* t is s without its leading and trailing whitespace
IsTrimOf(t, s) ==
  /\ t # <<>> /\ t[1] # " " /\ t[Len(t)] # " "
  /\ \E i \in 0..Len(s) : /\ i + Len(t) <= Len(s)
                          /\ SubSeq(s, i + 1, i + Len(t)) = t
                          /\ Blank(SubSeq(s, 1, i))
                          /\ Blank(SubSeq(s, i + Len(t) + 1, Len(s)))

\* C26: createWatchlist rejects a name that is absent, empty or only
\* whitespace with VALIDATION_ERROR and creates no watchlist, and stores an
\* accepted name trimmed; validateStringParam rejects an absent, empty or
\* whitespace-only value with VALIDATION_ERROR whatever the maximum length,
\* and a value it accepts is returned trimmed.
C26_BlankNameRejected ==
  [][/\ (last'.op = "createWatchlist") =>
          \A n \in NameInputs, p \in IsPublicInputs :
            createWatchlist(last'.userId, n, absent, p, absent) =>
              IF ~IsSome(n) \/ Blank(Val(n))
              THEN /\ last'.err = "VALIDATION_ERROR"
                   /\ UNCHANGED <<store, idCounter>>
              ELSE /\ last'.err = "OK"
                   /\ last'.id \notin DOMAIN watchlists
                   /\ IsTrimOf(watchlists'[last'.id].name, Val(n))
     /\ (last'.op = "validateStringParam") =>
          LET value == last'.id.value
          IN /\ (value.type \in {"undefined", "null"} \/ (value.type = "string" /\ Blank(value.v)))
                  => last'.err = "VALIDATION_ERROR"
             /\ last'.err = "OK" => IsTrimOf(Val(last'.ret), value.v)
             /\ UNCHANGED <<store, idCounter>>]_vars

\* C26 witness: a whitespace-only name has been refused by createWatchlist
\* while a watchlist created from a padded name exists under its trimmed name.
C26_Witness ==
  /\ last.op = "createWatchlist" /\ last.err = "VALIDATION_ERROR" /\ last.stage = "service"
  /\ \E w \in DOMAIN watchlists : watchlists[w].name = <<"a">>

\* C27: no watchlist ever holds more than MAX_COINS_PER_WATCHLIST items.
C27_AtMostMaxCoins ==
  \A w \in DOMAIN watchlistCoins : Len(watchlistCoins[w]) <= MAX_COINS_PER_WATCHLIST

\* the result passes the WatchlistError of the call through, or is the
\* generic INTERNAL_ERROR for another fault
PassOrWrap ==
  LET e == last.id.error
      r == Val(last.ret)
  IN IF e.kind = "WatchlistError"
     THEN r.code = e.code /\ r.message = e.message /\ r.details = e.details
     ELSE r.code = "INTERNAL_ERROR" /\ r.message = "An unexpected error occurred"

\* C28 as stated: createErrorResponse and asyncHandler pass a WatchlistError
\* through with its code and turn any other fault into INTERNAL_ERROR with a
\* generic message; the fault's message is attached as details whenever
\* NODE_ENV is not production and never in production.
C28_DetailsOutsideProduction ==
  (last.op \in {"createErrorResponse", "asyncHandler"}) =>
    /\ PassOrWrap
    /\ last.id.error.kind = "Error" =>
         (IsSome(Val(last.ret).details) <=> last.id.nodeEnv # "production")

\* C28 amended: as above, but the fault's message is attached as details
\* exactly when NODE_ENV is development (by createErrorResponse as the
\* message, by asyncHandler as the fault that carries it), and in no other
\* deployment, production included.
C28_DetailsInDevelopmentOnly ==
  (last.op \in {"createErrorResponse", "asyncHandler"}) =>
    LET e == last.id.error
        details == Val(last.ret).details
    IN /\ PassOrWrap
       /\ e.kind = "Error" =>
            /\ IsSome(details) <=> last.id.nodeEnv = "development"
            /\ IsSome(details) =>
                 Val(details) = IF last.op = "createErrorResponse" THEN e.message ELSE e

\* C28 witness: createErrorResponse has wrapped a plain Error in a
\* development deployment and attached its message.
C28_Witness ==
  /\ last.op = "createErrorResponse"
  /\ last.id.error.kind = "Error" /\ last.id.nodeEnv = "development"
  /\ last.err = "INTERNAL_ERROR"
  /\ Val(last.ret).details = Some("boom")

\* the record kept for a user id and an action, if any
RecordOf(table, userId, action) ==
  IF rateKey(userId, action) \in DOMAIN table THEN Some(table[rateKey(userId, action)]) ELSE absent

\* C29: for each pair of a user id and an action, a call of checkRateLimit
\* opens a window when the pair has no record or the clock has passed the
\* record's resetTime, counts itself, and returns normally while the count
\* of the window is at most limit; a further call in the window fails with
\* RATE_LIMITED and resetIn equal to the remaining window time in whole
\* seconds, rounded up and not negative; the records of the other pairs are
\* as they were.
C29_RateLimitPerKey ==
  [][(CallStep /\ last'.op = "checkRateLimit") =>
       LET u == last'.userId
           a == last'.id.action
           limit == last'.id.limit
           old == RecordOf(rateLimitStore, u, a)
           fresh == ~IsSome(old) \/ now > Val(old).resetTime
           n == IF fresh THEN 1 ELSE Val(old).count + 1
           resetTime == IF fresh THEN now + last'.id.windowMs ELSE Val(old).resetTime
       IN /\ RecordOf(rateLimitStore', u, a) = Some([count |-> n, resetTime |-> resetTime])
          /\ n <= limit => last'.err = "OK"
          /\ n > limit =>
               /\ last'.err = "RATE_LIMITED"
               /\ Val(last'.ret).resetIn >= 0
               /\ (Val(last'.ret).resetIn - 1) * 1000 < resetTime - now
               /\ resetTime - now <= Val(last'.ret).resetIn * 1000
          /\ \A u2 \in RateUserInputs, a2 \in RateActionInputs :
               <<u2, a2>> # <<u, a>> =>
                 RecordOf(rateLimitStore', u2, a2) = RecordOf(rateLimitStore, u2, a2)]_vars

\* C30: with limit >= 1, a call of checkRateLimit at a time after the
\* resetTime of the key's record opens a new window, has count 1 and
\* returns normally, whatever the count of the old window was; a call at
\* the resetTime itself is counted in the old window.
C30_NewWindowAfterReset ==
  [][(CallStep /\ last'.op = "checkRateLimit" /\ last'.id.limit >= 1) =>
       LET key == rateKey(last'.userId, last'.id.action)
       IN key \in DOMAIN rateLimitStore =>
            /\ now > rateLimitStore[key].resetTime =>
                 /\ last'.err = "OK"
                 /\ rateLimitStore'[key] = [count |-> 1, resetTime |-> now + last'.id.windowMs]
            /\ now = rateLimitStore[key].resetTime =>
                 /\ rateLimitStore'[key] = [count |-> rateLimitStore[key].count + 1,
                                            resetTime |-> rateLimitStore[key].resetTime]
                 /\ last'.err = "OK" <=> rateLimitStore[key].count + 1 <= last'.id.limit]_vars

\* C30 witness: a call made exactly at the resetTime of its key's record has
\* been counted in the old window and refused with resetIn 0.
C30_Witness ==
  /\ last.op = "checkRateLimit" /\ last.err = "RATE_LIMITED"
  /\ rateKey(last.userId, last.id.action) \in DOMAIN rateLimitStore
  /\ rateLimitStore[rateKey(last.userId, last.id.action)].resetTime = now
  /\ Val(last.ret).resetIn = 0

\* ------------------------------------------------------------------------
\* Properties of the proxy singleton
\* ------------------------------------------------------------------------
InFlight(promise) == promise # null /\ promises[promise].state = "pending"

GetStep == Len(callers') = Len(callers) + 1

\* C31: while an attempt is in flight, a further getCoinGeckoProxy() call
\* constructs no proxy and starts no attempt, and its caller awaits that same
\* attempt; at most one attempt is in flight, and every caller of an attempt
\* that succeeded holds the one proxy that attempt constructed and connected.
C31_SharedAttempt ==
  [][/\ (InFlight(connectionPromise) /\ GetStep)
          => /\ proxies' = proxies
             /\ promises' = promises
             /\ connectionPromise' = connectionPromise
             /\ callers'[Len(callers')].promise = connectionPromise
             /\ callers'[Len(callers')].state = "pending"
     /\ \A p, q \in 1..Len(promises') :
          (promises'[p].state = "pending" /\ promises'[q].state = "pending") => p = q
     /\ \A p, q \in 1..Len(promises') : promises'[p].proxy = promises'[q].proxy => p = q
     /\ \A i \in 1..Len(callers') :
          (callers'[i].promise # null /\ callers'[i].state = "resolved")
            => /\ callers'[i].value = promises'[callers'[i].promise].proxy
               /\ callers'[i].connected]_vars

\* C31 witness: three callers of one attempt hold the same connected proxy
C31_Witness ==
  \E i, j, k \in 1..Len(callers) :
    /\ i < j /\ j < k
    /\ callers[i].promise # null
    /\ callers[j].promise = callers[i].promise /\ callers[k].promise = callers[i].promise
    /\ callers[i].state = "resolved" /\ callers[j].state = "resolved" /\ callers[k].state = "resolved"
    /\ callers[i].value = callers[j].value /\ callers[j].value = callers[k].value
    /\ Len(proxies) = 1

\* C32: when an attempt fails, every caller awaiting it is rejected and
\* connectionPromise is cleared; the next call then starts a fresh attempt
\* with a new proxy; after an attempt has succeeded, a call returns the
\* connected proxy of that attempt and starts no attempt.
C32_RetryAfterFailure ==
  [][/\ \A q \in 1..Len(promises) :
          (promises[q].state = "pending" /\ promises'[q].state = "rejected")
            => /\ connectionPromise' = null
               /\ \A i \in 1..Len(callers) :
                    (callers[i].promise = q /\ callers[i].state = "pending")
                      => callers'[i].state = "rejected"
     /\ (GetStep /\ promises # <<>> /\ promises[Len(promises)].state = "rejected")
          => /\ Len(proxies') = Len(proxies) + 1
             /\ coinGeckoProxy' = Len(proxies')
             /\ ~proxies'[coinGeckoProxy'].isConnected
             /\ Len(promises') = Len(promises) + 1
             /\ connectionPromise' = Len(promises')
             /\ promises'[connectionPromise'] = [state |-> "pending", proxy |-> coinGeckoProxy', value |-> null]
             /\ callers'[Len(callers')] = [promise |-> connectionPromise', state |-> "pending",
                                           value |-> null, connected |-> FALSE]
     /\ (GetStep /\ promises # <<>> /\ promises[Len(promises)].state = "resolved")
          => /\ proxies' = proxies
             /\ promises' = promises
             /\ connectionPromise' = connectionPromise
             /\ coinGeckoProxy' = coinGeckoProxy
             /\ callers'[Len(callers')].state = "resolved"
             /\ callers'[Len(callers')].value = promises[Len(promises)].proxy
             /\ callers'[Len(callers')].connected]_vars

\* C32 witness: a caller of a failed attempt was rejected, a caller of the
\* next attempt got its proxy, and a later call returned that proxy
C32_Witness ==
  \E i, j, k \in 1..Len(callers) :
    /\ callers[i].state = "rejected"
    /\ callers[j].state = "resolved" /\ callers[j].promise > callers[i].promise
    /\ j < k /\ callers[k].state = "resolved" /\ callers[k].promise = null
    /\ callers[k].value = callers[j].value
    /\ connectionPromise = callers[j].promise

Connecting(proxy) ==
  \E q \in 1..Len(promises) : promises[q].state = "pending" /\ promises[q].proxy = proxy

\* C38: at any time at most one proxy instance is connecting or connected.
C38_OneLiveProxy ==
  \A p, q \in 1..Len(proxies) :
    ((Connecting(p) \/ proxies[p].isConnected) /\ (Connecting(q) \/ proxies[q].isConnected))
      => p = q

\* C39: every getCoinGeckoProxy() call that has resolved was handed a proxy
\* whose isClientConnected() was true at that moment.
C39_ResolvedIsConnected ==
  \A i \in 1..Len(callers) : callers[i].state = "resolved" => callers[i].connected

\* C33: a store operation called with an absent requester id fails and leaves
\* the store as it was, and no watchlist has an absent owner.
C33_NoWriteWithoutIdentity ==
  [][/\ (last'.op \in WriteOps \ {"reset"} /\ last'.userId = undefined)
          => (last'.err # "OK" /\ UNCHANGED store)
     /\ \A id \in DOMAIN watchlists' : watchlists'[id].userId # undefined]_vars

\* C34: every stored watchlist name is non-empty after trimming, whatever
\* service-layer createWatchlist and updateWatchlist calls were made.
C34_StoredNameNotBlank ==
  \A id \in DOMAIN watchlists : Trim(watchlists[id].name) # <<>>

RECURSIVE Concat(_)
Concat(seqs) == IF seqs = <<>> THEN <<>> ELSE Concat(SubSeq(seqs, 1, Len(seqs) - 1)) \o seqs[Len(seqs)]

\* C35: for a fixed filtered list of T entries and a fixed limit in 1..100,
\* the pages 1, 2, ..., n are pairwise disjoint, their concatenation in page
\* order is the first min(T, n * limit) entries of the list, the whole list
\* once n reaches ceil(T / limit), and every page beyond ceil(T / limit) is
\* empty.
C35_PagesPartitionList ==
  (last.op = "readPage") =>
    LET T == last.id.total
        limit == last.id.limit
        pages == Val(last.ret)
        n == Len(pages)
    IN /\ n = last.id.page
       /\ \A i, j \in 1..n : i # j => Range(pages[i]) \cap Range(pages[j]) = {}
       /\ Concat(pages) = SubSeq(ListOf(T), 1, Min(T, n * limit))
       /\ n >= Ceil(T, limit) => Concat(pages) = ListOf(T)
       /\ \A i \in 1..n : i > Ceil(T, limit) => pages[i] = <<>>

\* C35 witness: 45 entries read with limit 20: pages of 20, 20 and 5 entries
\* and an empty fourth page
C35_Witness ==
  /\ last.op = "readPage"
  /\ last.id = [total |-> 45, page |-> 4, limit |-> 20]
  /\ Len(Val(last.ret)[1]) = 20 /\ Len(Val(last.ret)[2]) = 20
  /\ Val(last.ret)[3] = <<41, 42, 43, 44, 45>>
  /\ Val(last.ret)[4] = <<>>

\* the item lists before and after a successful updateCoinInWatchlist(w, _,
\* c, t, n): the one item with coin id c has the given price and notes and
\* its other fields as before; nothing else has changed
EditedOnly(w, c, t, n) ==
  LET coins == MapGet(watchlistCoins, w, <<>>)
  IN /\ DOMAIN watchlistCoins' = DOMAIN watchlistCoins
     /\ Len(watchlistCoins'[w]) = Len(coins)
     /\ \A i \in 1..Len(coins) :
          IF coins[i].coinId # Trim(c)
          THEN watchlistCoins'[w][i] = coins[i]
          ELSE /\ watchlistCoins'[w][i].id = coins[i].id
               /\ watchlistCoins'[w][i].coinId = coins[i].coinId
               /\ watchlistCoins'[w][i].watchlistId = coins[i].watchlistId
               /\ watchlistCoins'[w][i].symbol = coins[i].symbol
               /\ watchlistCoins'[w][i].name = coins[i].name
               /\ watchlistCoins'[w][i].addedAt = coins[i].addedAt
               /\ watchlistCoins'[w][i].targetPrice = IF IsSome(t) THEN t ELSE coins[i].targetPrice
               /\ watchlistCoins'[w][i].notes = IF IsSome(n) THEN Some(Trim(Val(n))) ELSE coins[i].notes
     /\ \A k \in DOMAIN watchlistCoins \ {w} : watchlistCoins'[k] = watchlistCoins[k]
     /\ UNCHANGED <<watchlists, notes, userWatchlists, publicWatchlists, coinWatchlists>>

HoldsCoin(w, c) ==
  \E i \in 1..Len(MapGet(watchlistCoins, w, <<>>)) : watchlistCoins[w][i].coinId = Trim(c)

\* C36 (as claimed): a successful updateCoinInWatchlist changes only
\* targetPrice and notes of the one item with the given coin id, and the call
\* fails with NOT_FOUND and changes nothing whenever the coin is not in the
\* watchlist.
C36_UpdateCoinFrame ==
  [][(last'.op = "updateCoinInWatchlist") =>
      \A c \in CoinIdInputs, t \in TargetPriceInputs, n \in EditNotesInputs :
        updateCoinInWatchlist(last'.id, last'.userId, c, t, n) =>
          /\ last'.err = "OK" => (HoldsCoin(last'.id, c) /\ EditedOnly(last'.id, c, t, n))
          /\ ~HoldsCoin(last'.id, c) => (last'.err = "NOT_FOUND" /\ UNCHANGED store)]_vars

\* C36 (amended): a successful updateCoinInWatchlist changes only targetPrice
\* and notes of the one item with the given coin id; when the coin is not in
\* the watchlist the call fails and changes nothing, with NOT_FOUND when the
\* watchlist does not exist or the requester owns it, and with FORBIDDEN when
\* the watchlist is another requester's.
C36_UpdateCoinFrameForOwner ==
  [][(last'.op = "updateCoinInWatchlist") =>
      \A c \in CoinIdInputs, t \in TargetPriceInputs, n \in EditNotesInputs :
        updateCoinInWatchlist(last'.id, last'.userId, c, t, n) =>
          /\ last'.err = "OK" => (HoldsCoin(last'.id, c) /\ EditedOnly(last'.id, c, t, n))
          /\ ~HoldsCoin(last'.id, c) =>
               /\ UNCHANGED store
               /\ last'.err = IF last'.id \in DOMAIN watchlists /\ watchlists[last'.id].userId # last'.userId
                              THEN "FORBIDDEN" ELSE "NOT_FOUND"]_vars

\* C36 witness: the owner has given the second of two items notes and a
\* price; the first item has neither
C36_Witness ==
  /\ last.op = "updateCoinInWatchlist" /\ last.err = "OK"
  /\ last.userId = watchlists[last.id].userId
  /\ Len(watchlistCoins[last.id]) = 2
  /\ watchlistCoins[last.id][1].notes = absent /\ watchlistCoins[last.id][1].targetPrice = absent
  /\ watchlistCoins[last.id][2].notes = Some(<<"n">>) /\ watchlistCoins[last.id][2].targetPrice = Some(2)

\* C37: the purge deletes only records whose resetTime is strictly in the
\* past and leaves the others as they are, and every checkRateLimit call has
\* the outcome (success, or RATE_LIMITED with the same resetIn) that the same
\* calls at the same times have when no purge ever runs.
C37_PurgeUnobservable ==
  [][/\ (CallStep /\ last'.op = "cleanup")
          => /\ DOMAIN rateLimitStore' \subseteq DOMAIN rateLimitStore
             /\ \A k \in DOMAIN rateLimitStore :
                  IF k \in DOMAIN rateLimitStore'
                  THEN rateLimitStore'[k] = rateLimitStore[k]
                  ELSE rateLimitStore[k].resetTime < now
     /\ (CallStep /\ last'.op = "checkRateLimit")
          => /\ last'.err = unpurged'.err
             /\ last'.ret = unpurged'.ret]_vars

\* C37 witness: a call has been refused after the purge has deleted a record
\* that the table that is never purged still holds
C37_Witness ==
  /\ last.op = "checkRateLimit" /\ last.err = "RATE_LIMITED"
  /\ \E k \in DOMAIN unpurged.table : k \notin DOMAIN rateLimitStore
  /\ now > 1000

\* C40: an id issued after reset() equals no id issued before that reset: a
\* call made after a reset never issues the id that a caller holds from
\* before it, whether or not the clock has advanced in between.
C40_NoReissueAfterReset ==
  [][\A id \in UsedIds' \ UsedIds :
       (IsSome(held) /\ Val(held)[2] >= idCounter) => id # Val(held)]_vars
====
